---- MODULE Spec2Model ----
(***************************************************************************)
(* SurFit V1 core: the SAW engine (engine.py), the policy engine           *)
(* (policy.py) and the hash-chained execution ledger (logger.py).          *)
(*                                                                         *)
(* Strings of the program that are built at run time (ISO timestamps,      *)
(* SHA-256 digests, canonical JSON) are modelled by values with the same   *)
(* comparisons: a timestamp is an integer (ISO-8601 UTC strings of          *)
(* datetime.isoformat() order lexicographically as the instants do), a     *)
(* canonical JSON object is the tuple of its values in key order, a text   *)
(* is a sequence of such tuples and a digest is its tagged preimage        *)
(* (SHA-256 taken as collision free).                                      *)
(***************************************************************************)
EXTENDS Integers, Sequences, FiniteSets, TLC

\* ---------------------------------------------------------------- bounds

MaxRows == 3        \* rows ever inserted into execution_log
MaxTs == 2          \* distinct wall-clock readings 1..MaxTs
MaxNodes == 3       \* nodes of a SAW graph after its start node

\* ------------------------------------------------------------ input sets

Runs == {"run_a", "run_b"}
SawIds == {"saw_board_metrics_v1", "saw_revenue_v1"}
Timestamps == 1..MaxTs

\* Times in milliseconds are counted in thirds of 0.01 ms, so that a value
\* with more than two decimals exists and round(x, 2) has something to do.
Hundredth == 3

\* round(x, 2) of a time that is not negative.
Round2(x) == ((2 * x + Hundredth) \div (2 * Hundredth)) * Hundredth

\* What _execute_tool_node measures: round(elapsed * 1000, 2), line 247.
Latencies == {0, Hundredth}

\* A message (str | None) is a sequence of fragments; None is no message.
None == << >>
EmptyStr == <<"">>
Contains(msg, fragment) == \E i \in 1..Len(msg) : msg[i] = fragment

\* ----------------------------------------------------- logger.py: hashing

\* One JSON-free literal of the program, as a text of one block.
Lit(s) == << <<s, "", "", "", 0, << >>, 0>> >>

GENESIS == Lit("GENESIS")
EMPTY == << >>                        \* the empty string ''
NoHash == Lit("None")                 \* None in verify's result

\* json.dumps(obj, sort_keys=True, separators=(",", ":")) of the event
\* payload: the values of its seven keys.
canonical_json(obj) ==
    << <<obj.run_id, obj.node_id, obj.tool_name, obj.decision,
         obj.latency_ms, obj.error, obj.timestamp>> >>

\* hashlib.sha256(value.encode("utf-8")).hexdigest(): the tagged preimage.
sha256_hex(value) == Lit("sha256") \o value

\* A faulty payload, to show what the tamper properties rest on: the latency
\* is left out of the hashed dict.
EventPayload_NoLatency(run_id, node_id, tool_name, decision, latency_ms, error, timestamp) ==
    [run_id |-> run_id, node_id |-> node_id, tool_name |-> tool_name,
     decision |-> decision, latency_ms |-> 0,
     error |-> IF error = << >> THEN <<"">> ELSE error,
     timestamp |-> timestamp]

\* The dict that write_log and verify_run_integrity both hash:
\* float(latency_ms) and (error or "").
EventPayload(run_id, node_id, tool_name, decision, latency_ms, error, timestamp) ==
    [run_id |-> run_id, node_id |-> node_id, tool_name |-> tool_name,
     decision |-> decision, latency_ms |-> latency_ms,
     error |-> IF error = None THEN EmptyStr ELSE error,
     timestamp |-> timestamp]

\* ------------------------------------------------------------ the state

VARIABLES
    log,        \* execution_log: the stored rows, in insertion order
    inserted,   \* history: inserted[i] is the row write_log stored with id i
    tampered    \* history: a direct SQL statement has changed execution_log

ledger_vars == <<log, inserted, tampered>>

\* engine.py: one run_saw call
VARIABLES
    saw_spec,          \* the SAW spec dict passed to run_saw
    input_resolver,    \* the resolver passed to run_saw
    ctx_state,         \* ctx.state: key -> value
    pc,                \* where run_saw is: call, walk, totals, returned, raised
    raised,            \* the exception that left run_saw: its type and message, None when none
    current_id,        \* the walk's current node id
    summary,           \* the RunSummary being built
    last_tool_result,  \* last successful tool's ToolResult, NoResult when none
    invoked,           \* history: node ids whose tool function was called
    checked,           \* history: the policy_check calls, [node_id, decision, inputs]
    results            \* history: the tool function calls, the inputs passed and
                       \* what came back, [node_id, success, data, error, inputs]

engine_vars == <<saw_spec, input_resolver, ctx_state, pc, raised, current_id,
                 summary, last_tool_result, invoked, checked, results>>

\* logger.py: write_log on two connections
VARIABLES
    conn_pc,    \* per connection: idle, or read (SELECT done, INSERT not yet)
    conn_pend,  \* per connection: the entry and the prev_hash its SELECT read
    now         \* the wall clock of the concurrent scenario

conc_vars == <<conn_pc, conn_pend, now>>

\* logger.py: the other tables, and what the last API call returned
VARIABLES
    runs,             \* runs: run_id -> row
    llm_invocations,  \* llm_invocations: the stored rows, in insertion order
    api_result        \* [call, value]: the last logger call and its return value

store_vars == <<runs, llm_invocations, api_result>>

\* policy.py: one policy_check call
VARIABLES
    pol_call,      \* the arguments: tool_name, tool_inputs, is_write, policy
    pol_decision   \* the PolicyDecision returned, NoDecision before the call

policy_vars == <<pol_call, pol_decision>>

\* api.py: the wave tables, and what approve_wave answered
VARIABLES
    waves,              \* waves: wave_id -> [status, updated_at]
    approval_requests,  \* approval_requests: approval_request_id -> row
    wave_response       \* the response of the last approve_wave call

wave_vars == <<waves, approval_requests, wave_response>>

vars == <<ledger_vars, engine_vars, conc_vars, store_vars, policy_vars, wave_vars>>

RowSet(l) == {l[i] : i \in 1..Len(l)}

RunRows(l, run_id) == {r \in RowSet(l) : r.run_id = run_id}

\* ORDER BY timestamp_iso, id
RowLess(a, b) ==
    \/ a.timestamp_iso < b.timestamp_iso
    \/ a.timestamp_iso = b.timestamp_iso /\ a.id < b.id

RECURSIVE OrderRows(_)
OrderRows(S) ==
    IF S = {} THEN << >>
    ELSE LET m == CHOOSE r \in S : \A q \in S \ {r} : RowLess(r, q)
         IN  <<m>> \o OrderRows(S \ {m})

\* A faulty read of the latest hash, to show what run isolation rests on:
\* the SELECT without its WHERE run_id = ? clause.
LatestHash_AnyRun(l, run_id) ==
    LET rows == OrderRows(RowSet(l))
    IN  IF rows = << >> THEN GENESIS
        ELSE IF rows[Len(rows)].event_hash = EMPTY THEN GENESIS
        ELSE rows[Len(rows)].event_hash

\* SELECT event_hash ... WHERE run_id = ? ORDER BY timestamp_iso DESC, id DESC LIMIT 1
\* followed by: prev_row[0] if prev_row and prev_row[0] else "GENESIS"
LatestHash(l, run_id) ==
    LET rows == OrderRows(RunRows(l, run_id))
    IN  IF rows = << >> THEN GENESIS
        ELSE IF rows[Len(rows)].event_hash = EMPTY THEN GENESIS
        ELSE rows[Len(rows)].event_hash

\* The row write_log inserts for entry, given the prev_hash it read and the
\* id AUTOINCREMENT hands out.
NewRow(id, entry, prev_hash) ==
    [id |-> id,
     timestamp_iso |-> entry.timestamp_iso,
     run_id |-> entry.run_id,
     saw_id |-> entry.saw_id,
     node_id |-> entry.node_id,
     tool_name |-> entry.tool_name,
     decision |-> entry.decision,
     latency_ms |-> entry.latency_ms,
     prev_hash |-> prev_hash,
     event_hash |-> sha256_hex(prev_hash \o canonical_json(
         EventPayload(entry.run_id, entry.node_id, entry.tool_name,
                      entry.decision, entry.latency_ms, entry.error,
                      entry.timestamp_iso))),
     error |-> entry.error]

\* A faulty write, to show what append-only rests on: INSERT OR REPLACE keyed
\* by run, which drops the run's earlier rows.
write_log_replacing(l, id, entry) ==
    Append(SelectSeq(l, LAMBDA r : r.run_id # entry.run_id),
           NewRow(id, entry, LatestHash(l, entry.run_id)))

\* write_log on one connection: read latest, insert, commit.
write_log(l, id, entry) == Append(l, NewRow(id, entry, LatestHash(l, entry.run_id)))

\* A faulty variant: the position reported counts from one.
RECURSIVE VerifyFrom_OneBased(_, _, _)
VerifyFrom_OneBased(rows, idx, prev) ==
    IF idx > Len(rows)
    THEN [valid |-> TRUE, first_mismatch_index |-> -1,
          expected_hash |-> NoHash, found_hash |-> NoHash]
    ELSE LET row == rows[idx]
             expected_event == sha256_hex(prev \o canonical_json(
                 EventPayload(row.run_id, row.node_id, row.tool_name,
                              row.decision, row.latency_ms, row.error,
                              row.timestamp_iso)))
         IN  IF row.prev_hash # prev \/ row.event_hash # expected_event
             THEN [valid |-> FALSE, first_mismatch_index |-> idx,
                   expected_hash |-> expected_event,
                   found_hash |-> row.event_hash]
             ELSE VerifyFrom_OneBased(rows, idx + 1, row.event_hash)

\* verify_run_integrity: the walk over the rows, from position idx with
\* prev the stored event_hash of the row before.
RECURSIVE VerifyFrom(_, _, _)
VerifyFrom(rows, idx, prev) ==
    IF idx > Len(rows)
    THEN [valid |-> TRUE, first_mismatch_index |-> -1,
          expected_hash |-> NoHash, found_hash |-> NoHash]
    ELSE LET row == rows[idx]
             expected_event == sha256_hex(prev \o canonical_json(
                 EventPayload(row.run_id, row.node_id, row.tool_name,
                              row.decision, row.latency_ms, row.error,
                              row.timestamp_iso)))
         IN  IF row.prev_hash # prev \/ row.event_hash # expected_event
             THEN [valid |-> FALSE, first_mismatch_index |-> idx - 1,
                   expected_hash |-> expected_event,
                   found_hash |-> row.event_hash]
             ELSE VerifyFrom(rows, idx + 1, row.event_hash)

verify_run_integrity(l, run_id) ==
    VerifyFrom(OrderRows(RunRows(l, run_id)), 1, GENESIS)

\* ------------------------------------------------------- ledger: actions

\* The LogEntry values handed to write_log.
LogEntries ==
    [timestamp_iso : Timestamps, run_id : Runs, saw_id : {"saw_board_metrics_v1"},
     node_id : {"n_start"}, tool_name : {""}, decision : {"allow"},
     latency_ms : {0}, error : {None}]

WriteLog(entry) ==
    /\ Len(inserted) < MaxRows
    /\ log' = write_log(log, Len(inserted) + 1, entry)
    /\ inserted' = Append(inserted, log'[Len(log')])
    /\ UNCHANGED <<tampered, engine_vars, conc_vars, store_vars, policy_vars, wave_vars>>

\* The values a direct UPDATE can put into a column.
ForgedHash == Lit("forged")

ColumnValues(l, i, col) ==
    CASE col = "timestamp_iso" -> Timestamps
      [] col = "run_id" -> Runs
      [] col = "saw_id" -> SawIds
      [] col = "node_id" -> {"n_start", "n_end"}
      [] col = "tool_name" -> {"", "tool_browser"}
      [] col = "decision" -> {"allow", "deny"}
      [] col = "latency_ms" -> Latencies
      [] col = "error" -> {None, EmptyStr, <<"boom">>}
      [] col = "prev_hash" -> {GENESIS, ForgedHash}
      [] col = "event_hash" -> {EMPTY, ForgedHash}

Columns == {"timestamp_iso", "run_id", "saw_id", "node_id", "tool_name",
            "decision", "latency_ms", "error", "prev_hash", "event_hash"}

UpdateColumn(l, i, col, v) == [l EXCEPT ![i] = [@ EXCEPT ![col] = v]]

\* UPDATE execution_log SET <col> = ? WHERE id = ?   (as tamper_test.py does
\* for latency_ms)
TamperRow(i, col, v) ==
    /\ ~tampered
    /\ i \in 1..Len(log)
    /\ v # log[i][col]
    /\ log' = UpdateColumn(log, i, col, v)
    /\ tampered' = TRUE
    /\ UNCHANGED <<inserted, engine_vars, conc_vars, store_vars, policy_vars, wave_vars>>

DropRows(l, ids) == SelectSeq(l, LAMBDA r : r.id \notin ids)

\* DELETE FROM execution_log WHERE id IN (...)
DeleteRows(ids) ==
    /\ ~tampered
    /\ ids # {}
    /\ log' = DropRows(log, ids)
    /\ tampered' = TRUE
    /\ UNCHANGED <<inserted, engine_vars, conc_vars, store_vars, policy_vars, wave_vars>>


\* ------------------------------------------------------------- policy.py

\* A faulty variant: no tool is exempt from policy_check.
INFRA_TOOLS_None == {}

\* Tools that are infrastructure, exempt from policy deny.
INFRA_TOOLS == {"tool_logger_write"}

\* dict.get(key, default)
Get(d, key, default) == IF key \in DOMAIN d THEN d[key] ELSE default

EmptyDict == << >>

\* '; '.join(reasons)
RECURSIVE JoinReasons(_)
JoinReasons(reasons) ==
    IF reasons = << >> THEN << >>
    ELSE IF Len(reasons) = 1 THEN reasons[1]
    ELSE reasons[1] \o <<"; ">> \o JoinReasons(Tail(reasons))

PolicyDecision(decision, tool_name, reasons) ==
    [decision |-> decision, tool_name |-> tool_name, reasons |-> reasons]

\* Step 3 of policy_check: the egress reasons, accumulated in order.
EgressReasons(tool_name, egress) ==
    (IF tool_name = "tool_external_http" /\ ~egress.allow_external_http
     THEN << <<"External HTTP egress is disabled by policy.">> >> ELSE << >>)
    \o (IF tool_name = "tool_email_send" /\ ~egress.allow_email_send
        THEN << <<"Email send is disabled by policy.">> >> ELSE << >>)
    \o (IF tool_name = "tool_slack_dm" /\ ~egress.allow_slack_dm
        THEN << <<"Slack DM is disabled by policy.">> >> ELSE << >>)

InSeq(x, seq) == \E i \in 1..Len(seq) : seq[i] = x

\* A faulty variant of step 4: a new deck is refused, any template id
\* passes.
WriteReasons_DeckOnly(tool_name, tool_inputs, is_write, policy) ==
    IF is_write /\ tool_name \in DOMAIN policy.write_restrictions
    THEN LET restrictions == policy.write_restrictions[tool_name]
         IN  IF Get(tool_inputs, "create_new_deck", FALSE)
                 /\ ~Get(restrictions, "allow_create_new_decks", FALSE)
             THEN << <<"Creating new decks is not allowed by policy.">> >>
             ELSE << >>
    ELSE << >>

\* A faulty variant of step 4: the template id is checked, a new deck is
\* never refused.
WriteReasons_TemplateOnly(tool_name, tool_inputs, is_write, policy) ==
    IF is_write /\ tool_name \in DOMAIN policy.write_restrictions
    THEN LET restrictions == policy.write_restrictions[tool_name]
             template_id == Get(tool_inputs, "template_id", "")
         IN  IF ~InSeq(template_id, restrictions.allowed_template_ids)
             THEN << <<"Template ID '", template_id, "' is not in the allowed list: ">>
                     \o restrictions.allowed_template_ids \o <<".">> >>
             ELSE << >>
    ELSE << >>

\* Step 4 of policy_check: the write-restriction reasons, accumulated in order.
WriteReasons(tool_name, tool_inputs, is_write, policy) ==
    IF is_write /\ tool_name \in DOMAIN policy.write_restrictions
    THEN LET restrictions == policy.write_restrictions[tool_name]
             template_id == Get(tool_inputs, "template_id", "")
         IN  (IF ~InSeq(template_id, restrictions.allowed_template_ids)
              THEN << <<"Template ID '", template_id, "' is not in the allowed list: ">>
                      \o restrictions.allowed_template_ids \o <<".">> >>
              ELSE << >>)
             \o (IF Get(tool_inputs, "create_new_deck", FALSE)
                    /\ ~Get(restrictions, "allow_create_new_decks", FALSE)
                 THEN << <<"Creating new decks is not allowed by policy.">> >>
                 ELSE << >>)
    ELSE << >>

\* A faulty variant: no return after the denylist and allowlist steps, the
\* reasons of every failing step pile up.
policy_check_Accumulating(tool_name, tool_inputs, is_write, policy) ==
    LET reasons ==
            (IF tool_name \in policy.tool_denylist
             THEN << <<"Tool '", tool_name, "' is on the denylist.">> >> ELSE << >>)
            \o (IF tool_name \notin policy.tool_allowlist
                THEN << <<"Tool '", tool_name, "' is not on the allowlist for policy '",
                          policy.policy_id, "'.">> >>
                ELSE << >>)
            \o EgressReasons(tool_name, policy.egress)
            \o WriteReasons(tool_name, tool_inputs, is_write, policy)
    IN  IF reasons # << >> THEN PolicyDecision("deny", tool_name, reasons)
        ELSE PolicyDecision("allow", tool_name, << <<"all_checks_passed">> >>)

policy_check(tool_name, tool_inputs, is_write, policy) ==
    IF tool_name \in policy.tool_denylist
    THEN PolicyDecision("deny", tool_name,
             << <<"Tool '", tool_name, "' is on the denylist.">> >>)
    ELSE IF tool_name \notin policy.tool_allowlist
    THEN PolicyDecision("deny", tool_name,
             << <<"Tool '", tool_name, "' is not on the allowlist for policy '",
                  policy.policy_id, "'.">> >>)
    ELSE IF EgressReasons(tool_name, policy.egress) # << >>
    THEN PolicyDecision("deny", tool_name, EgressReasons(tool_name, policy.egress))
    ELSE IF WriteReasons(tool_name, tool_inputs, is_write, policy) # << >>
    THEN PolicyDecision("deny", tool_name,
             WriteReasons(tool_name, tool_inputs, is_write, policy))
    ELSE PolicyDecision("allow", tool_name, << <<"all_checks_passed">> >>)

policy_from_spec(saw) ==
    LET pb == saw.policy_bundle
    IN  [policy_id |-> pb.policy_id,
         sensitivity_level |-> pb.sensitivity_level,
         tool_allowlist |-> pb.tools.allowlist,
         tool_denylist |-> pb.tools.denylist,
         egress |-> pb.egress,
         write_restrictions |-> Get(pb, "write_restrictions", EmptyDict)]

\* The calls of policy_check tried. The policy is the board-metrics policy
\* with the called tool put on or off its lists, every setting of the three
\* egress booleans, and for the called tool no write_restrictions entry, or
\* one with allow_create_new_decks true, false or missing.
PolicyTools ==
    {"tool_slides_update_template", "tool_external_http", "tool_email_send",
     "tool_slack_dm", "tool_stripe_read_revenue"}

Restrictions ==
    {[allowed_template_ids |-> <<"TEMPLATE_DECK_V1">>, allow_create_new_decks |-> TRUE],
     [allowed_template_ids |-> <<"TEMPLATE_DECK_V1">>, allow_create_new_decks |-> FALSE],
     [allowed_template_ids |-> <<"TEMPLATE_DECK_V1">>]}

Policies(tool_name) ==
    {[policy_id |-> "policy_board_metrics_v1",
      sensitivity_level |-> "medium",
      tool_allowlist |-> {"tool_salesforce_read_pipeline"} \cup on_allow,
      tool_denylist |-> {"tool_browser"} \cup on_deny,
      egress |-> egress,
      write_restrictions |-> wr] :
        on_allow \in {{}, {tool_name}}, on_deny \in {{}, {tool_name}},
        egress \in [allow_external_http : BOOLEAN, allow_email_send : BOOLEAN,
                    allow_slack_dm : BOOLEAN],
        wr \in {EmptyDict} \cup {(tool_name :> r) : r \in Restrictions}}

\* tool_inputs: template_id and create_new_deck, each given or not.
ToolInputs ==
    {EmptyDict} \cup [template_id : {"TEMPLATE_DECK_V1", "ROGUE_TEMPLATE"}]
        \cup [create_new_deck : BOOLEAN]
        \cup [template_id : {"TEMPLATE_DECK_V1", "ROGUE_TEMPLATE"},
              create_new_deck : BOOLEAN]

PolicyCalls ==
    UNION {[tool_name : {t}, tool_inputs : ToolInputs, is_write : BOOLEAN,
            policy : Policies(t)] : t \in PolicyTools}

NoCall ==
    [tool_name |-> "", tool_inputs |-> EmptyDict, is_write |-> FALSE,
     policy |-> [policy_id |-> "", sensitivity_level |-> "", tool_allowlist |-> {},
                 tool_denylist |-> {},
                 egress |-> [allow_external_http |-> FALSE, allow_email_send |-> FALSE,
                             allow_slack_dm |-> FALSE],
                 write_restrictions |-> EmptyDict]]

NoDecision == PolicyDecision("", "", << >>)

\* A caller evaluates policy_check on the arguments it holds.
PolicyCheck ==
    /\ pol_decision = NoDecision
    /\ pol_call # NoCall
    /\ pol_decision' = policy_check(pol_call.tool_name, pol_call.tool_inputs,
                                    pol_call.is_write, pol_call.policy)
    /\ UNCHANGED <<pol_call, ledger_vars, engine_vars, conc_vars, store_vars, wave_vars>>

\* -------------------------------------------------------------- tools.py

TOOL_REGISTRY ==
    {"tool_salesforce_read_pipeline", "tool_stripe_read_revenue",
     "tool_reconcile_metrics", "tool_generate_summary_llm",
     "tool_generate_board_summary", "tool_slides_update_template",
     "tool_logger_write", "tool_quickbooks_read_expenses",
     "tool_stripe_read_payouts", "tool_reconcile_revenue",
     "tool_generate_revenue_report", "tool_write_revenue_report",
     "tool_pull_actuals", "tool_pull_budget", "tool_variance_analysis",
     "tool_gen_reforecast", "tool_update_plan"}

ToolResult(tool_name, success, data, error) ==
    [tool_name |-> tool_name, success |-> success, data |-> data, error |-> error]

\* What a tool function can return: tools are opaque collaborators behind
\* the ToolResult envelope.
\* The registry entries bound to tool_generate_summary_llm.
LlmTools == {"tool_generate_summary_llm", "tool_generate_board_summary"}

\* The data of tool_generate_summary_llm: the summary, and the llm_meta block
\* with the texts of the invocation.
LlmData ==
    [metrics_table_markdown |-> "table", commentary |-> "commentary",
     llm_meta |-> [provider |-> "openai", model_name |-> "gpt-4o-mini",
                   model_version |-> "gpt-4o-mini-2025-01-15",
                   temperature |-> 0, max_tokens |-> 300],
     llm_output_text |-> "commentary"]

ToolOutcomes(tool_name) ==
    {ToolResult(tool_name, TRUE,
                IF tool_name \in LlmTools THEN LlmData ELSE [status |-> "updated"],
                None),
     ToolResult(tool_name, FALSE, EmptyDict, <<"template_id is required">>),
     ToolResult(tool_name, FALSE, EmptyDict, None)}

\* ------------------------------------------------------------- engine.py


ctx_run_id == "run_a"
ctx_saw_id == "saw_board_metrics_v1"

\* Keys of ctx.state: a node id, a reserved control key, or
\* f"_inputs_{node_id}".
Key(name) == <<name>>
\* A faulty variant: the resolved inputs stored under the node's own key.
InputsKey_Node(node_id) == <<node_id>>

InputsKey(node_id) == <<"_inputs_", node_id>>

NoResult == ToolResult("", FALSE, EmptyDict, None)

\* _build_graph: the node map, and the adjacency unless a source repeats.
node_map(saw) ==
    LET nodes == saw.graph.nodes
    IN  [id \in {nodes[i].id : i \in 1..Len(nodes)} |->
            nodes[CHOOSE i \in 1..Len(nodes) :
                     /\ nodes[i].id = id
                     /\ \A j \in (i + 1)..Len(nodes) : nodes[j].id # id]]

\* A faulty validation, to show what the graph properties rest on: the
\* check for a second outgoing edge left out.
HasBranching_Never(saw) == FALSE

HasBranching(saw) ==
    LET edges == saw.graph.edges
    IN  \E i, j \in 1..Len(edges) : i < j /\ edges[i].from = edges[j].from

\* The source of the first edge, in list order, whose source already has an
\* edge: the node the NotImplementedError names.
FirstBranch(saw) ==
    LET edges == saw.graph.edges
        at == CHOOSE j \in 1..Len(edges) :
                 /\ \E i \in 1..(j - 1) : edges[i].from = edges[j].from
                 /\ \A k \in 1..(j - 1) :
                       ~\E i \in 1..(k - 1) : edges[i].from = edges[k].from
    IN  edges[at].from

\* raise type(message)
Raise(type, msg) == <<type>> \o msg

adjacency(saw) ==
    LET edges == saw.graph.edges
    IN  [src \in {edges[i].from : i \in 1..Len(edges)} |->
            edges[CHOOSE i \in 1..Len(edges) : edges[i].from = src].to]

\* _find_start_node: the ids whose node has type start.
StartNodes(saw) == {id \in DOMAIN node_map(saw) : node_map(saw)[id].type = "start"}

\* default_input_resolver
default_input_resolver(node_id, state) ==
    IF node_id = "n_salesforce_pull"
    THEN [date_range |-> "2025-Q1", segment |-> "enterprise"]
    ELSE IF node_id = "n_stripe_pull" /\ Key("n_salesforce_pull") \in DOMAIN state
    THEN [date_range |-> "2025-Q1", currency |-> "usd"]
    ELSE IF node_id = "n_reconcile" /\ Key("n_salesforce_pull") \in DOMAIN state
    THEN [salesforce |-> Get(state, Key("n_salesforce_pull"), EmptyDict),
          stripe |-> Get(state, Key("n_stripe_pull"), EmptyDict)]
    ELSE IF node_id = "n_generate_summary"
    THEN LET reconcile_data == Get(state, Key("n_reconcile"), EmptyDict)
         IN  [reconciled_metrics |-> Get(reconcile_data, "reconciled_metrics", EmptyDict),
              discrepancies |-> Get(reconcile_data, "discrepancies", << >>)]
    ELSE IF node_id = "n_update_slides"
    THEN LET summary_data == Get(state, Key("n_generate_summary"), EmptyDict)
         IN  [template_id |-> "TEMPLATE_DECK_V1",
              metrics_table_markdown |-> Get(summary_data, "metrics_table_markdown", ""),
              commentary |-> Get(summary_data, "commentary", "")]
    ELSE IF node_id = "n_qb_pull"
    THEN [period |-> "2025-Q1"]
    ELSE IF node_id = "n_stripe_pull" /\ Key("n_qb_pull") \in DOMAIN state
    THEN [period |-> "2025-Q1"]
    ELSE IF node_id = "n_reconcile" /\ Key("n_qb_pull") \in DOMAIN state
    THEN [expenses |-> Get(state, Key("n_qb_pull"), EmptyDict),
          payouts |-> Get(state, Key("n_stripe_pull"), EmptyDict)]
    ELSE IF node_id = "n_gen_report"
    THEN [reconciled |-> Get(state, Key("n_reconcile"), EmptyDict)]
    ELSE IF node_id = "n_write_report"
    THEN [report |-> Get(state, Key("n_gen_report"), EmptyDict)]
    ELSE EmptyDict

\* bad_resolver of test_engine.py: a rogue template id for n_update_slides.
bad_resolver(node_id, state) ==
    IF node_id = "n_update_slides"
    THEN LET summary_data == Get(state, Key("n_generate_summary"), EmptyDict)
         IN  [template_id |-> "ROGUE_TEMPLATE",
              metrics_table_markdown |-> Get(summary_data, "metrics_table_markdown", ""),
              commentary |-> Get(summary_data, "commentary", "")]
    ELSE default_input_resolver(node_id, state)

Resolve(node_id, state) ==
    IF input_resolver = "bad_resolver" THEN bad_resolver(node_id, state)
    ELSE default_input_resolver(node_id, state)

PyTrue == "True"

\* A faulty gate, to show what the approval property rests on: truthiness
\* (bool(value)) instead of "is True".
_handle_approval_gate_truthy(state) ==
    LET approved == Get(state, Key("_approval_granted"), "None") \in {PyTrue, "1"}
        wait_ms == Get(state, Key("_approval_wait_ms"), 0)
    IN  IF ~approved
        THEN [approved |-> FALSE, wait_ms |-> wait_ms,
              error |-> <<"Approval ", "not provided">>]
        ELSE [approved |-> TRUE, wait_ms |-> wait_ms, error |-> None]

\* Line 319: summary.human_wait_time_ms += wait_ms, and a faulty variant
\* that keeps the last gate's wait only.
AddWait_Overwrite(summ, wait_ms) == [summ EXCEPT !.human_wait_time_ms = wait_ms]

AddWait(summ, wait_ms) == [summ EXCEPT !.human_wait_time_ms = @ + wait_ms]

\* _handle_approval_gate: (approved, wait_ms, error_or_none)
_handle_approval_gate(state) ==
    LET approved == Get(state, Key("_approval_granted"), "None") = PyTrue
        wait_ms == Get(state, Key("_approval_wait_ms"), 0)
    IN  IF ~approved
        THEN [approved |-> FALSE, wait_ms |-> wait_ms,
              error |-> <<"Approval ", "not provided">>]
        ELSE [approved |-> TRUE, wait_ms |-> wait_ms, error |-> None]

\* A walk over an acyclic graph visits at most MaxNodes + 2 nodes. What a
\* walk round a cycle does beyond HistoryCap visits is not kept: the ledger
\* and the histories hold the first HistoryCap entries.
HistoryCap == MaxNodes + 3

Record(hist, x) == IF Len(hist) >= HistoryCap THEN hist ELSE Append(hist, x)

\* _log_event: write_log of a LogEntry stamped with the wall clock.
_log_event(node_id, decision, tool_name, latency_ms, error) ==
    /\ log' = IF Len(inserted) >= HistoryCap THEN log
              ELSE write_log(log, Len(inserted) + 1,
                     [timestamp_iso |-> now, run_id |-> ctx_run_id,
                      saw_id |-> ctx_saw_id, node_id |-> node_id,
                      tool_name |-> tool_name, decision |-> decision,
                      latency_ms |-> latency_ms, error |-> error])
    /\ inserted' = IF Len(inserted) >= HistoryCap THEN inserted
                   ELSE Append(inserted, log'[Len(log')])
    /\ UNCHANGED tampered

\* Lines 355-363: advance to the next node, or stop the walk.
AdvancePc == IF current_id \in DOMAIN adjacency(saw_spec) THEN "walk" ELSE "totals"
AdvanceId ==
    IF current_id \in DOMAIN adjacency(saw_spec)
    THEN adjacency(saw_spec)[current_id] ELSE current_id
\* A faulty variant, to show what "completed only via an end node" rests on:
\* a walk that runs out of edges reported as completed.
AdvanceSummary_Completes(summ) ==
    IF current_id \in DOMAIN adjacency(saw_spec) THEN summ
    ELSE [summ EXCEPT !.status = "completed"]

\* A faulty variant: the dead end is reported without its reason.
AdvanceSummary_NoReason(summ) ==
    IF current_id \in DOMAIN adjacency(saw_spec) THEN summ
    ELSE [summ EXCEPT !.status = "error"]

AdvanceSummary(summ) ==
    IF current_id \in DOMAIN adjacency(saw_spec) THEN summ
    ELSE [summ EXCEPT !.status = "error",
                      !.denial_reason = <<"No outgoing edge from node '", current_id, "'">>]

\* run_saw, lines 283-295: build the graph, find the start node.
RunSawBegin ==
    /\ pc = "call"
    /\ IF HasBranching(saw_spec)
       THEN /\ pc' = "raised"
            /\ raised' = Raise("NotImplementedError",
                               <<"Node '", FirstBranch(saw_spec),
                                 "' has >1 outgoing edge. ",
                                 "Branching graphs are not supported in V1.">>)
            /\ UNCHANGED <<current_id, summary>>
       ELSE IF Cardinality(StartNodes(saw_spec)) # 1
       THEN /\ pc' = "raised"
            /\ raised' = Raise("ValueError",
                               <<"Expected exactly 1 start node, found ",
                                 Cardinality(StartNodes(saw_spec))>>)
            /\ UNCHANGED <<current_id, summary>>
       ELSE /\ pc' = "walk" /\ raised' = None
            /\ current_id' = CHOOSE id \in StartNodes(saw_spec) : TRUE
            /\ summary' = [run_id |-> ctx_run_id, saw_id |-> ctx_saw_id,
                           status |-> "running", system_time_ms |-> 0,
                           human_wait_time_ms |-> 0, total_time_ms |-> 0,
                           node_results |-> EmptyDict, final_outputs |-> EmptyDict,
                           denial_reason |-> None]
    /\ UNCHANGED <<saw_spec, input_resolver, ctx_state, last_tool_result,
                   invoked, checked, results, ledger_vars, conc_vars, store_vars, policy_vars, wave_vars>>

\* node["tool"] of the current node ("" while there is none).
CurrentTool ==
    IF current_id \in DOMAIN node_map(saw_spec)
    THEN node_map(saw_spec)[current_id].tool ELSE ""

Walking(type) ==
    /\ pc = "walk"
    /\ current_id \in DOMAIN node_map(saw_spec)
    /\ node_map(saw_spec)[current_id].type = type

VisitStart ==
    /\ Walking("start")
    /\ _log_event(current_id, "allow", "", 0, None)
    /\ pc' = AdvancePc
    /\ current_id' = AdvanceId
    /\ summary' = AdvanceSummary(summary)
    /\ UNCHANGED <<saw_spec, input_resolver, ctx_state, raised, last_tool_result,
                   invoked, checked, results, conc_vars, store_vars, policy_vars, wave_vars>>

VisitEnd ==
    /\ Walking("end")
    /\ _log_event(current_id, "allow", "", 0, None)
    /\ summary' = [summary EXCEPT
                     !.status = "completed",
                     !.final_outputs = IF last_tool_result.success
                                       THEN last_tool_result.data ELSE @]
    /\ pc' = "totals"
    /\ UNCHANGED <<saw_spec, input_resolver, ctx_state, raised, current_id,
                   last_tool_result, invoked, checked, results, conc_vars, store_vars, policy_vars, wave_vars>>

VisitApprovalGate ==
    /\ Walking("approval_gate")
    /\ LET gate == _handle_approval_gate(ctx_state)
           waited == AddWait(summary, gate.wait_ms)
       IN  /\ _log_event(current_id, IF gate.approved THEN "allow" ELSE "deny",
                         "", gate.wait_ms, gate.error)
           /\ IF ~gate.approved
              THEN /\ summary' = [waited EXCEPT !.status = "denied",
                                                !.denial_reason = gate.error]
                   /\ pc' = "totals"
                   /\ UNCHANGED current_id
              ELSE /\ summary' = AdvanceSummary(waited)
                   /\ pc' = AdvancePc
                   /\ current_id' = AdvanceId
    /\ UNCHANGED <<saw_spec, input_resolver, ctx_state, raised, last_tool_result,
                   invoked, checked, results, conc_vars, store_vars, policy_vars, wave_vars>>

\* Faulty variants, to show what the gating properties rest on: a deny that
\* is not honoured, and a denied node reported as a success.
PolicyDenies_Ignored(tool_name, pd) == FALSE
DeniedResult_Success(tool_name, error_msg) ==
    [tool_name |-> tool_name, success |-> TRUE, data |-> << >>, error |-> error_msg]

\* Lines 210-215: the policy engine is asked unless the tool is an infra
\* tool, and its deny ends the node.
PolicyDenies(tool_name, pd) == tool_name \notin INFRA_TOOLS /\ pd.decision = "deny"

\* Lines 224-227 and 239-242: what _execute_tool_node returns without
\* calling the tool.
DeniedResult(tool_name, error_msg) == ToolResult(tool_name, FALSE, EmptyDict, error_msg)

\* A faulty variant: the entry of a called tool without the tool's error.
AllowEntry_NoError(outcome, measured_ms) ==
    [decision |-> "allow", latency_ms |-> measured_ms, error |-> None]

\* Lines 250-256: the entry logged after the tool function has returned.
AllowEntry(outcome, measured_ms) ==
    [decision |-> "allow", latency_ms |-> measured_ms, error |-> outcome.error]

\* A faulty variant: the registry is looked up before the policy is asked.
_execute_tool_node_RegistryFirst(node, state, policy, outcome, measured_ms) ==
    LET tool_name == node.tool
        node_id == node.id
        is_write == node.write_action
        tool_inputs == Get(state, InputsKey(node_id), EmptyDict)
        pd == policy_check(tool_name, tool_inputs, is_write, policy)
        asked == IF tool_name \notin INFRA_TOOLS THEN pd.decision ELSE "skipped"
        policy_error == <<"Policy denied: ">> \o JoinReasons(pd.reasons)
        missing_error == <<"Tool '", tool_name, "' not found in TOOL_REGISTRY">>
    IN  IF tool_name \notin TOOL_REGISTRY
        THEN [result |-> DeniedResult(tool_name, missing_error), latency_ms |-> 0,
              entry |-> [decision |-> "deny", latency_ms |-> 0, error |-> missing_error],
              called |-> FALSE, policy_decision |-> "skipped",
              policy_inputs |-> tool_inputs, call_inputs |-> EmptyDict]
        ELSE IF PolicyDenies(tool_name, pd)
        THEN [result |-> DeniedResult(tool_name, policy_error), latency_ms |-> 0,
              entry |-> [decision |-> "deny", latency_ms |-> 0, error |-> policy_error],
              called |-> FALSE, policy_decision |-> asked,
              policy_inputs |-> tool_inputs, call_inputs |-> EmptyDict]
        ELSE [result |-> outcome, latency_ms |-> measured_ms,
              entry |-> AllowEntry(outcome, measured_ms),
              called |-> TRUE, policy_decision |-> asked,
              policy_inputs |-> tool_inputs, call_inputs |-> tool_inputs]

\* A faulty variant: the tool function is called with an empty payload, not
\* with the inputs the policy saw.
_execute_tool_node_RawInputs(node, state, policy, outcome, measured_ms) ==
    LET tool_name == node.tool
        node_id == node.id
        is_write == node.write_action
        tool_inputs == Get(state, InputsKey(node_id), EmptyDict)
        pd == policy_check(tool_name, tool_inputs, is_write, policy)
        asked == IF tool_name \notin INFRA_TOOLS THEN pd.decision ELSE "skipped"
        policy_error == <<"Policy denied: ">> \o JoinReasons(pd.reasons)
        missing_error == <<"Tool '", tool_name, "' not found in TOOL_REGISTRY">>
    IN  IF PolicyDenies(tool_name, pd)
        THEN [result |-> DeniedResult(tool_name, policy_error), latency_ms |-> 0,
              entry |-> [decision |-> "deny", latency_ms |-> 0, error |-> policy_error],
              called |-> FALSE, policy_decision |-> asked,
              policy_inputs |-> tool_inputs, call_inputs |-> EmptyDict]
        ELSE IF tool_name \notin TOOL_REGISTRY
        THEN [result |-> DeniedResult(tool_name, missing_error), latency_ms |-> 0,
              entry |-> [decision |-> "deny", latency_ms |-> 0, error |-> missing_error],
              called |-> FALSE, policy_decision |-> asked,
              policy_inputs |-> tool_inputs, call_inputs |-> EmptyDict]
        ELSE [result |-> outcome, latency_ms |-> measured_ms,
              entry |-> AllowEntry(outcome, measured_ms),
              called |-> TRUE, policy_decision |-> asked,
              policy_inputs |-> tool_inputs, call_inputs |-> EmptyDict]

\* _execute_tool_node: policy check, registry lookup, invocation (the tool
\* returns outcome after measured_ms), and the entry it logs. called says
\* whether the tool function ran; policy_decision is policy_check's answer,
\* "skipped" when it was not asked; policy_inputs is the payload handed to
\* policy_check (line 211) and call_inputs the one handed to the tool
\* function (line 246).
_execute_tool_node(node, state, policy, outcome, measured_ms) ==
    LET tool_name == node.tool
        node_id == node.id
        is_write == node.write_action
        tool_inputs == Get(state, InputsKey(node_id), EmptyDict)
        pd == policy_check(tool_name, tool_inputs, is_write, policy)
        asked == IF tool_name \notin INFRA_TOOLS THEN pd.decision ELSE "skipped"
        policy_error == <<"Policy denied: ">> \o JoinReasons(pd.reasons)
        missing_error == <<"Tool '", tool_name, "' not found in TOOL_REGISTRY">>
    IN  IF PolicyDenies(tool_name, pd)
        THEN [result |-> DeniedResult(tool_name, policy_error), latency_ms |-> 0,
              entry |-> [decision |-> "deny", latency_ms |-> 0, error |-> policy_error],
              called |-> FALSE, policy_decision |-> asked,
              policy_inputs |-> tool_inputs, call_inputs |-> EmptyDict]
        ELSE IF tool_name \notin TOOL_REGISTRY
        THEN [result |-> DeniedResult(tool_name, missing_error), latency_ms |-> 0,
              entry |-> [decision |-> "deny", latency_ms |-> 0, error |-> missing_error],
              called |-> FALSE, policy_decision |-> asked,
              policy_inputs |-> tool_inputs, call_inputs |-> EmptyDict]
        ELSE [result |-> outcome, latency_ms |-> measured_ms,
              entry |-> AllowEntry(outcome, measured_ms),
              called |-> TRUE, policy_decision |-> asked,
              policy_inputs |-> tool_inputs, call_inputs |-> tool_inputs]

\* dict[key] = value
Put(d, key, value) ==
    [k \in DOMAIN d \cup {key} |-> IF k = key THEN value ELSE d[k]]

\* The tool_call branch of run_saw, lines 331-348: resolve and stash the
\* inputs, run _execute_tool_node, record the node result, stop on failure,
\* else store the output and add the latency.
VisitToolCall(outcome, measured_ms) ==
    /\ Walking("tool_call")
    /\ LET node == node_map(saw_spec)[current_id]
           stashed == Put(ctx_state, InputsKey(current_id),
                          Resolve(current_id, ctx_state))
           exec == _execute_tool_node(node, stashed, policy_from_spec(saw_spec),
                                      outcome, measured_ms)
           result == exec.result
           noted == [summary EXCEPT !.node_results =
                        Put(@, current_id,
                            IF result.success THEN result.data ELSE result.error)]
       IN  /\ checked' = IF exec.policy_decision = "skipped" THEN checked
                         ELSE Record(checked, [node_id |-> current_id,
                                               decision |-> exec.policy_decision,
                                               inputs |-> exec.policy_inputs])
           /\ invoked' = IF exec.called THEN Record(invoked, current_id) ELSE invoked
           /\ results' = IF exec.called
                         THEN Record(results, [node_id |-> current_id,
                                               success |-> result.success,
                                               data |-> result.data,
                                               error |-> result.error,
                                               inputs |-> exec.call_inputs])
                         ELSE results
           /\ _log_event(current_id, exec.entry.decision, node.tool,
                         exec.entry.latency_ms, exec.entry.error)
           /\ IF ~result.success
              THEN /\ summary' = [noted EXCEPT !.status = "denied",
                                               !.denial_reason = result.error]
                   /\ ctx_state' = stashed
                   /\ pc' = "totals"
                   /\ UNCHANGED <<current_id, last_tool_result>>
              ELSE /\ ctx_state' = Put(stashed, Key(current_id), result.data)
                   /\ last_tool_result' = result
                   /\ summary' = AdvanceSummary(
                         [noted EXCEPT !.system_time_ms = @ + exec.latency_ms])
                   /\ pc' = AdvancePc
                   /\ current_id' = AdvanceId
    /\ UNCHANGED <<saw_spec, input_resolver, raised, conc_vars, store_vars, policy_vars, wave_vars>>

\* Lines 350-353: an unknown node type raises ValueError out of run_saw;
\* line 298 raises KeyError for an id that is no node.
VisitUnknown ==
    /\ pc = "walk"
    /\ \/ /\ current_id \notin DOMAIN node_map(saw_spec)
          /\ raised' = Raise("KeyError", <<current_id>>)
       \/ /\ current_id \in DOMAIN node_map(saw_spec)
          /\ node_map(saw_spec)[current_id].type
                \notin {"start", "end", "approval_gate", "tool_call"}
          /\ raised' = Raise("ValueError",
                             <<"Unknown node type '", node_map(saw_spec)[current_id].type,
                               "' at node '", current_id, "'">>)
    /\ pc' = "raised"
    /\ UNCHANGED <<saw_spec, input_resolver, ctx_state, current_id, summary,
                   last_tool_result, invoked, checked, results, ledger_vars, conc_vars, store_vars, policy_vars, wave_vars>>

\* Lines 365-371: round the totals and return the summary.
RunSawReturn ==
    /\ pc = "totals"
    /\ summary' = [summary EXCEPT
                     !.system_time_ms = Round2(summary.system_time_ms),
                     !.human_wait_time_ms = Round2(summary.human_wait_time_ms),
                     !.total_time_ms = Round2(Round2(summary.system_time_ms)
                                              + Round2(summary.human_wait_time_ms))]
    /\ pc' = "returned"
    /\ UNCHANGED <<saw_spec, input_resolver, ctx_state, raised, current_id,
                   last_tool_result, invoked, checked, results, ledger_vars, conc_vars, store_vars, policy_vars, wave_vars>>

\* ------------------------------------------- engine.py: a failing append

\* What write_log raises when sqlite cannot execute or commit the INSERT
\* (logger.py lines 150-172 catch nothing).
StorageError == Raise("sqlite3.OperationalError", <<"database or disk is full">>)

\* _log_event fails at a start, end or approval_gate node (lines 306, 310,
\* 321): run_saw has no handler, the exception leaves the call. At a gate
\* line 319 has already added the wait.
AppendFailsAtNode ==
    /\ \/ Walking("start")
       \/ Walking("end")
       \/ Walking("approval_gate")
    /\ summary' = IF node_map(saw_spec)[current_id].type = "approval_gate"
                  THEN AddWait(summary, _handle_approval_gate(ctx_state).wait_ms)
                  ELSE summary
    /\ raised' = StorageError
    /\ pc' = "raised"
    /\ UNCHANGED <<saw_spec, input_resolver, ctx_state, current_id,
                   last_tool_result, invoked, checked, results, ledger_vars,
                   conc_vars, store_vars, policy_vars, wave_vars>>

\* _log_event fails inside _execute_tool_node (lines 228, 243, 250): the
\* inputs are stashed, the policy was asked, and on the allow path the tool
\* was called at line 246, before the append at line 250.
AppendFailsAtTool(outcome, measured_ms) ==
    /\ Walking("tool_call")
    /\ LET node == node_map(saw_spec)[current_id]
           stashed == Put(ctx_state, InputsKey(current_id),
                          Resolve(current_id, ctx_state))
           exec == _execute_tool_node(node, stashed, policy_from_spec(saw_spec),
                                      outcome, measured_ms)
       IN  /\ checked' = IF exec.policy_decision = "skipped" THEN checked
                         ELSE Record(checked, [node_id |-> current_id,
                                               decision |-> exec.policy_decision,
                                               inputs |-> exec.policy_inputs])
           /\ invoked' = IF exec.called THEN Record(invoked, current_id) ELSE invoked
           /\ results' = IF exec.called
                         THEN Record(results, [node_id |-> current_id,
                                               success |-> exec.result.success,
                                               data |-> exec.result.data,
                                               error |-> exec.result.error,
                                               inputs |-> exec.call_inputs])
                         ELSE results
           /\ ctx_state' = stashed
    /\ raised' = StorageError
    /\ pc' = "raised"
    /\ UNCHANGED <<saw_spec, input_resolver, current_id, summary,
                   last_tool_result, ledger_vars, conc_vars, store_vars, policy_vars, wave_vars>>

\* ------------------------------------------- logger.py: two connections


Conns == {"conn_1", "conn_2"}

NoPend == [entry |-> [timestamp_iso |-> 0, run_id |-> "", saw_id |-> "",
                      node_id |-> "", tool_name |-> "", decision |-> "",
                      latency_ms |-> 0, error |-> None],
           prev_hash |-> EMPTY]

\* write_log lines 127-138 on connection c: the SELECT runs in autocommit
\* mode, outside any transaction.
WlRead(c, run_id) ==
    /\ conn_pc[c] = "idle"
    /\ Len(inserted) + Cardinality({d \in Conns : conn_pc[d] = "read"}) < MaxRows
    /\ conn_pc' = [conn_pc EXCEPT ![c] = "read"]
    /\ conn_pend' = [conn_pend EXCEPT ![c] =
           [entry |-> [timestamp_iso |-> now, run_id |-> run_id,
                       saw_id |-> ctx_saw_id, node_id |-> "n_start",
                       tool_name |-> "", decision |-> "allow",
                       latency_ms |-> 0, error |-> None],
            prev_hash |-> LatestHash(log, run_id)]]
    /\ UNCHANGED <<now, ledger_vars, engine_vars, store_vars, policy_vars, wave_vars>>

\* write_log lines 140-172 on connection c: INSERT (which opens the
\* implicit transaction) and commit.
WlInsert(c) ==
    /\ conn_pc[c] = "read"
    /\ log' = Append(log, NewRow(Len(inserted) + 1, conn_pend[c].entry,
                                 conn_pend[c].prev_hash))
    /\ inserted' = Append(inserted, log'[Len(log')])
    /\ conn_pc' = [conn_pc EXCEPT ![c] = "idle"]
    /\ conn_pend' = [conn_pend EXCEPT ![c] = NoPend]
    /\ UNCHANGED <<now, tampered, engine_vars, store_vars, policy_vars, wave_vars>>

\* The wall clock moves on.
Tick ==
    /\ now < MaxTs
    /\ now' = now + 1
    /\ UNCHANGED <<conn_pc, conn_pend, ledger_vars, engine_vars, store_vars, policy_vars, wave_vars>>

\* ------------------------------------- logger.py: runs and llm_invocations

MaxInvocations == 1     \* rows ever inserted into llm_invocations

PreviewLen == 300       \* the [:300] of the previews

\* A text whose content matters character by character is the sequence of
\* its pieces; "\r\n", "\n" and " " are pieces of their own.
Whitespace == {"\r\n", "\n", " "}

\* value.replace("\r\n", "\n").rstrip()
RECURSIVE rstrip(_)
rstrip(text) ==
    IF text # << >> /\ text[Len(text)] \in Whitespace \ {"\r\n"}
    THEN rstrip(SubSeq(text, 1, Len(text) - 1))
    ELSE text

_normalize_text(value) ==
    rstrip([i \in 1..Len(value) |-> IF value[i] = "\r\n" THEN "\n" ELSE value[i]])

\* The text as hashed: one block per piece.
Blocks(text) == [i \in 1..Len(text) |-> <<text[i], "", "", "", 0, << >>, 0>>]

normalized_payload_hash(value) == sha256_hex(Blocks(_normalize_text(value)))

\* canonical_json of a tool-input dict: {} or {"q": <text>}.
CanonicalDict(d) ==
    IF d = << >> THEN <<"{}">> ELSE <<"{\"q\":\"">> \o d.q \o <<"\"}">>

Preview(text) ==
    SubSeq(text, 1, IF Len(text) < PreviewLen THEN Len(text) ELSE PreviewLen)

\* A faulty variant: INSERT OR IGNORE, an existing row stays as it is.
upsert_run_start_Ignore(rs, run_id, saw_id, started_at, status, policy_hash, policy_version, policy_snapshot) ==
    IF run_id \in DOMAIN rs THEN rs
    ELSE Put(rs, run_id,
             [run_id |-> run_id, saw_id |-> saw_id, started_at |-> started_at,
              status |-> status, policy_hash |-> policy_hash,
              policy_version |-> policy_version, policy_snapshot |-> policy_snapshot,
              approved_by |-> None, approved_at |-> None, approval_note |-> None])

\* upsert_run_start: INSERT ... ON CONFLICT(run_id) DO UPDATE of the listed
\* columns; the approval columns of an existing row stay.
upsert_run_start(rs, run_id, saw_id, started_at, status, policy_hash, policy_version, policy_snapshot) ==
    Put(rs, run_id,
        [run_id |-> run_id, saw_id |-> saw_id, started_at |-> started_at,
         status |-> status, policy_hash |-> policy_hash,
         policy_version |-> policy_version, policy_snapshot |-> policy_snapshot,
         approved_by |-> IF run_id \in DOMAIN rs THEN rs[run_id].approved_by ELSE None,
         approved_at |-> IF run_id \in DOMAIN rs THEN rs[run_id].approved_at ELSE None,
         approval_note |-> IF run_id \in DOMAIN rs THEN rs[run_id].approval_note
                           ELSE None])

\* update_run_approval: UPDATE runs SET ... WHERE run_id = ?
update_run_approval(rs, run_id, approved_by, approved_at, approval_note) ==
    IF run_id \in DOMAIN rs
    THEN [rs EXCEPT ![run_id] = [@ EXCEPT !.approved_by = approved_by,
                                          !.approved_at = approved_at,
                                          !.approval_note = approval_note]]
    ELSE rs

\* update_run_status: UPDATE runs SET status = ? WHERE run_id = ?
update_run_status(rs, run_id, status) ==
    IF run_id \in DOMAIN rs THEN [rs EXCEPT ![run_id].status = status] ELSE rs

\* The row write_llm_invocation inserts.
write_llm_invocation(rows, run_id, node_id, invoked_at, raw_tool_input, sanitized_prompt_input, llm_output_text) ==
    LET raw_json == CanonicalDict(raw_tool_input)
        sanitized_json == CanonicalDict(sanitized_prompt_input)
    IN  Append(rows,
          [id |-> Len(rows) + 1, run_id |-> run_id, node_id |-> node_id,
           invoked_at |-> invoked_at,
           raw_tool_input_hash |-> normalized_payload_hash(raw_json),
           sanitized_prompt_input_hash |-> normalized_payload_hash(sanitized_json),
           llm_output_text_hash |-> normalized_payload_hash(llm_output_text),
           raw_tool_input_preview |-> Preview(_normalize_text(raw_json)),
           llm_output_preview |-> Preview(_normalize_text(llm_output_text))])

\* get_run_logs: SELECT * ... ORDER BY timestamp_iso. Rows with one
\* timestamp come in an order SQL leaves open: every order is a result.
get_run_logs(l, run_id) ==
    LET rows == RunRows(l, run_id)
        n == Cardinality(rows)
    IN  {seq \in [1..n -> rows] :
            /\ \A i, j \in 1..n : i # j => seq[i] # seq[j]
            /\ \A i \in 1..(n - 1) : seq[i].timestamp_iso <= seq[i + 1].timestamp_iso}

\* Lines 377-382: the loop of get_cycle_time_breakdown over the rows from
\* idx on; a row of node 'n_approval' counts as human wait, any other as
\* system time.
RECURSIVE CycleSums(_, _, _, _)
CycleSums(rows, idx, system_ms, human_ms) ==
    IF idx > Len(rows)
    THEN [system_ms |-> system_ms, human_ms |-> human_ms]
    ELSE IF rows[idx].node_id = "n_approval"
         THEN CycleSums(rows, idx + 1, system_ms, human_ms + rows[idx].latency_ms)
         ELSE CycleSums(rows, idx + 1, system_ms + rows[idx].latency_ms, human_ms)

\* get_cycle_time_breakdown: one result for each order get_run_logs may
\* return the rows in.
get_cycle_time_breakdown(l, run_id) ==
    {LET sums == CycleSums(rows, 1, 0, 0)
     IN  [run_id |-> run_id,
          system_time_ms |-> Round2(sums.system_ms),
          human_wait_time_ms |-> Round2(sums.human_ms),
          total_ms |-> Round2(sums.system_ms + sums.human_ms)] :
        rows \in get_run_logs(l, run_id)}

\* What a logger call returns.
Returned(call, value) == [call |-> call, value |-> value]

UpsertRunStart(run_id, status) ==
    /\ runs' = upsert_run_start(runs, run_id, ctx_saw_id, now, status,
                                sha256_hex(Lit("policy")), <<"0.1">>, Lit("policy"))
    /\ api_result' = Returned("upsert_run_start", None)
    /\ UNCHANGED <<llm_invocations, ledger_vars, engine_vars, conc_vars, policy_vars, wave_vars>>

UpdateRunApproval(run_id, approved_by) ==
    /\ runs' = update_run_approval(runs, run_id, approved_by, now, <<"ok">>)
    /\ api_result' = Returned("update_run_approval", None)
    /\ UNCHANGED <<llm_invocations, ledger_vars, engine_vars, conc_vars, policy_vars, wave_vars>>

UpdateRunStatus(run_id, status) ==
    /\ runs' = update_run_status(runs, run_id, status)
    /\ api_result' = Returned("update_run_status", None)
    /\ UNCHANGED <<llm_invocations, ledger_vars, engine_vars, conc_vars, policy_vars, wave_vars>>

\* The texts an LLM tool hands over.
OutputTexts == {<< >>, <<"a", "\r\n", " ">>}

WriteLlmInvocation(run_id, llm_output_text) ==
    /\ Len(llm_invocations) < MaxInvocations
    /\ llm_invocations' = write_llm_invocation(llm_invocations, run_id,
                              "n_generate_summary", now, [q |-> <<"a">>],
                              << >>, llm_output_text)
    /\ api_result' = Returned("write_llm_invocation", None)
    /\ UNCHANGED <<runs, ledger_vars, engine_vars, conc_vars, policy_vars, wave_vars>>

VerifyRunIntegrity(run_id) ==
    /\ api_result' = Returned("verify_run_integrity", verify_run_integrity(log, run_id))
    /\ UNCHANGED <<runs, llm_invocations, ledger_vars, engine_vars, conc_vars, policy_vars, wave_vars>>

GetRunLogs(run_id) ==
    /\ \E rows \in get_run_logs(log, run_id) :
          api_result' = Returned("get_run_logs", rows)
    /\ UNCHANGED <<runs, llm_invocations, ledger_vars, engine_vars, conc_vars, policy_vars, wave_vars>>

\* --------------------------------------------------------------- api.py

\* Identifiers are texts of one-character pieces; "apr_" is one piece.
\* Wave ids are uuid4 texts, cut to WaveIdLen lower-case hex digits.
WaveIdLen == 2
HexDigits == {"a", "b"}
WaveIds == [1..WaveIdLen -> HexDigits]

\* What a caller can put into the path: "apr_", hex digits in either case,
\* and the underscore.
MaxIdLen == 2
IdPieces == {"apr_", "a", "b", "A", "_"}
ApprovalIds == UNION {[1..n -> IdPieces] : n \in 1..MaxIdLen}

\* str.replace("apr_", ""): every occurrence goes.
RECURSIVE StripApr(_)
StripApr(id) ==
    IF id = << >> THEN << >>
    ELSE IF Head(id) = "apr_" THEN StripApr(Tail(id))
    ELSE <<Head(id)>> \o StripApr(Tail(id))

Lower(c) == IF c = "A" THEN "a" ELSE c

\* wave_id LIKE prefix || '%' in SQLite: "_" in the pattern stands for any
\* one character, and letters match whatever their case.
Like(prefix, wave_id) ==
    /\ Len(prefix) <= Len(wave_id)
    /\ \A i \in 1..Len(prefix) :
          prefix[i] = "_" \/ Lower(prefix[i]) = Lower(wave_id[i])

WaveStatuses == {"running", "complete", "failed"}

MaxApprovals == 1   \* rows ever inserted into approval_requests

NoResponse == [wave_id |-> None, status |-> "", code |-> ""]

WaveError(code) == [wave_id |-> None, status |-> "failed", code |-> code]

\* approve_wave: the whole handler.
ApproveWave(approval_request_id, approved_by) ==
    LET complete(wave_id) ==
            [w \in DOMAIN waves |->
                IF w = wave_id
                THEN [status |-> IF waves[w].status = "running" THEN "complete"
                                 ELSE waves[w].status,
                      updated_at |-> now]
                ELSE waves[w]]
        approved(wave_id, created_at) ==
            [wave_id |-> wave_id, approved_by |-> approved_by, approved_at |-> now,
             status |-> "approved", created_at |-> created_at, updated_at |-> now]
        matches == {w \in DOMAIN waves : Like(StripApr(approval_request_id), w)}
    IN  /\ \/ approval_request_id \in DOMAIN approval_requests
           \/ Cardinality(DOMAIN approval_requests) < MaxApprovals
        /\ IF approval_request_id \in DOMAIN approval_requests
           THEN LET wave_id == approval_requests[approval_request_id].wave_id
                IN  /\ approval_requests' =
                          Put(approval_requests, approval_request_id,
                              approved(wave_id,
                                  approval_requests[approval_request_id].created_at))
                    /\ waves' = complete(wave_id)
                    /\ wave_response' = [wave_id |-> wave_id, status |-> "complete",
                                         code |-> ""]
           ELSE IF matches = {}
           THEN /\ wave_response' = WaveError("WAVE_NOT_FOUND")
                /\ UNCHANGED <<waves, approval_requests>>
           ELSE IF Cardinality(matches) > 1
           THEN /\ wave_response' = WaveError("AMBIGUOUS_WAVE_PREFIX")
                /\ UNCHANGED <<waves, approval_requests>>
           ELSE LET wave_id == CHOOSE w \in matches : TRUE
                IN  /\ approval_requests' =
                          Put(approval_requests, approval_request_id,
                              approved(wave_id, now))
                    /\ waves' = complete(wave_id)
                    /\ wave_response' = [wave_id |-> wave_id, status |-> "complete",
                                         code |-> ""]
        /\ UNCHANGED <<ledger_vars, engine_vars, conc_vars, store_vars, policy_vars>>

\* ------------------------------------------------------- the SAW specs run

\* The policy bundle of the board-metrics SAW (test_engine.py, app.py).
BoardPolicyBundle ==
    [policy_id |-> "policy_board_metrics_v1",
     sensitivity_level |-> "medium",
     egress |-> [allow_external_http |-> FALSE, allowed_domains |-> << >>,
                 allow_email_send |-> FALSE, allow_slack_dm |-> FALSE],
     tools |-> [allowlist |-> {"tool_salesforce_read_pipeline",
                               "tool_stripe_read_revenue",
                               "tool_reconcile_metrics",
                               "tool_generate_board_summary",
                               "tool_slides_update_template",
                               "tool_logger_write"},
                denylist |-> {"tool_browser", "tool_shell_exec",
                              "tool_external_http", "tool_email_send",
                              "tool_slack_dm"}],
     write_restrictions |->
         [tool_slides_update_template |->
             [allowed_template_ids |-> <<"TEMPLATE_DECK_V1">>,
              allow_create_new_decks |-> FALSE]]]

\* A bundle that allows a tool no registry entry exists for, and puts the
\* infra tool on the denylist.
OddPolicyBundle ==
    [BoardPolicyBundle EXCEPT
        !.tools = [allowlist |-> (@.allowlist \cup {"tool_unregistered"})
                                    \ {"tool_logger_write"},
                   denylist |-> @.denylist \cup {"tool_logger_write"}]]

\* A bundle that restricts the slides tool's writes and also has the tool on
\* its denylist.
DenySlidesBundle ==
    [BoardPolicyBundle EXCEPT
        !.tools = [allowlist |-> @.allowlist,
                   denylist |-> @.denylist \cup {"tool_slides_update_template"}]]

PolicyBundles == {BoardPolicyBundle, OddPolicyBundle, DenySlidesBundle}

Node(id, type, tool, write_action) ==
    [id |-> id, type |-> type, tool |-> tool, write_action |-> write_action]

StartNode == Node("n_start", "start", "", FALSE)

BodyNodes ==
    {Node("n_salesforce_pull", "tool_call", "tool_salesforce_read_pipeline", FALSE),
     Node("n_browser", "tool_call", "tool_browser", FALSE),
     Node("n_log", "tool_call", "tool_logger_write", FALSE),
     Node("n_lookup", "tool_call", "tool_unregistered", FALSE),
     Node("n_approval", "approval_gate", "", FALSE),
     Node("n_approval_2", "approval_gate", "", FALSE),
     Node("n_update_slides", "tool_call", "tool_slides_update_template", TRUE),
     Node("n_end", "end", "", FALSE),
     Node("n_fork", "branch", "", FALSE)}

\* The sequences of at most n distinct body nodes.
RECURSIVE Chains(_)
Chains(n) ==
    IF n = 0 THEN {<< >>}
    ELSE LET shorter == Chains(n - 1)
         IN  shorter \cup
             {Append(c, k) : <<c, k>> \in
                 {ck \in shorter \X BodyNodes : ~InSeq(ck[2], ck[1])}}

LinearEdges(nodes) ==
    [i \in 1..(Len(nodes) - 1) |-> [from |-> nodes[i].id, to |-> nodes[i + 1].id]]

HasNode(nodes, ids) == \E i \in 1..Len(nodes) : nodes[i].id \in ids

\* The graphs run. chain: a start node and a chain behind it. fork: the
\* same with a second edge out of the start node. no_start: the chain without
\* a start node. two_starts: a second start node. fork_no_start: both faults.
\* cycle: the chain with an edge from its last node back to the start node.
Shapes == {"chain", "fork", "no_start", "two_starts", "fork_no_start"}

SecondStart == Node("n_start_2", "start", "", FALSE)

Graph(shape, chain) ==
    LET nodes == CASE shape \in {"chain", "fork", "cycle"} -> <<StartNode>> \o chain
                   [] shape = "two_starts" -> <<StartNode, SecondStart>> \o chain
                   [] OTHER -> chain
        extra == IF shape \in {"fork", "fork_no_start"}
                 THEN <<[from |-> nodes[1].id, to |-> nodes[Len(nodes)].id]>>
                 ELSE IF shape = "cycle"
                 THEN <<[from |-> nodes[Len(nodes)].id, to |-> nodes[1].id]>>
                 ELSE << >>
    IN  [nodes |-> nodes, edges |-> LinearEdges(nodes) \o extra]

\* The specs run. The bundles differ only on the tools of n_log, n_lookup
\* and n_update_slides, so a chain without them runs under the board bundle
\* alone; a graph that
\* fails validation is run under the board bundle, and a fork needs two
\* nodes.
SawSpecs ==
    {[saw_id |-> ctx_saw_id, policy_bundle |-> x[3], graph |-> Graph(x[1], x[2])] :
        x \in {y \in Shapes \X Chains(MaxNodes) \X PolicyBundles :
                  /\ \/ y[3] = BoardPolicyBundle
                     \/ /\ y[3] = OddPolicyBundle
                        /\ y[1] = "chain" /\ HasNode(y[2], {"n_log", "n_lookup"})
                     \/ /\ y[3] = DenySlidesBundle
                        /\ y[1] = "chain" /\ HasNode(y[2], {"n_update_slides"})
                  /\ y[1] = "fork" => Len(y[2]) >= 1
                  /\ y[1] = "fork_no_start" => Len(y[2]) >= 2}}

\* The resolvers passed to run_saw: they differ on n_update_slides only.
Resolvers(saw) ==
    IF HasNode(saw.graph.nodes, {"n_update_slides"})
    THEN {"default", "bad_resolver"} ELSE {"default"}

\* ctx.state as the caller hands it to run_saw: the approval signals, each
\* present or not (-1: no _approval_wait_ms key; 1: a wait of a third of
\* 0.01 ms; Hundredth: a wait of 0.01 ms). Only an approval gate reads them.
\* The wait varies where the grant is a boolean.
ApprovalValues == {"absent", "True", "False", "1"}
WaitValues == {-1, 1, Hundredth}

CallerState(granted, wait_ms) ==
    [k \in (IF granted = "absent" THEN {} ELSE {Key("_approval_granted")})
           \cup (IF wait_ms < 0 THEN {} ELSE {Key("_approval_wait_ms")}) |->
        IF k = Key("_approval_granted") THEN granted ELSE wait_ms]

CallerStates(saw) ==
    IF HasNode(saw.graph.nodes, {"n_approval", "n_approval_2"})
    THEN {CallerState(g, w) : g \in {"True", "False"}, w \in WaitValues}
         \cup {CallerState(g, -1) : g \in ApprovalValues}
    ELSE {EmptyDict}

\* The board metrics SAW cut down to its LLM step: n_generate_summary of
\* run_demo.py, then at most MaxNodes - 1 further distinct nodes.
LlmNode == Node("n_generate_summary", "tool_call", "tool_generate_board_summary", FALSE)

LlmTailNodes ==
    {n \in BodyNodes : n.id \in {"n_salesforce_pull", "n_approval", "n_end", "n_fork"}}

LlmSawSpecs ==
    {[saw_id |-> ctx_saw_id, policy_bundle |-> BoardPolicyBundle,
      graph |-> Graph("chain", <<LlmNode>> \o tail)] :
        tail \in {c \in Chains(MaxNodes - 1) :
                    \A i \in 1..Len(c) : c[i] \in LlmTailNodes}}

NoSummary ==
    [run_id |-> "", saw_id |-> "", status |-> "", system_time_ms |-> 0,
     human_wait_time_ms |-> 0, total_time_ms |-> 0, node_results |-> EmptyDict,
     final_outputs |-> EmptyDict, denial_reason |-> None]

NoSpec ==
    [saw_id |-> "", policy_bundle |-> BoardPolicyBundle,
     graph |-> [nodes |-> << >>, edges |-> << >>]]

\* --------------------------------------------------------- specifications

\* The ledger under one connection: appends with any timestamps, and one
\* direct SQL statement against execution_log.
LedgerInit ==
    /\ log = << >>
    /\ inserted = << >>
    /\ tampered = FALSE
    /\ saw_spec = NoSpec
    /\ input_resolver = "default"
    /\ ctx_state = EmptyDict
    /\ pc = "off"
    /\ raised = None
    /\ current_id = ""
    /\ summary = NoSummary
    /\ last_tool_result = NoResult
    /\ invoked = << >>
    /\ checked = << >>
    /\ results = << >>
    /\ conn_pc = [c \in Conns |-> "idle"]
    /\ conn_pend = [c \in Conns |-> NoPend]
    /\ now = 1
    /\ runs = << >>
    /\ llm_invocations = << >>
    /\ api_result = [call |-> "", value |-> << >>]
    /\ pol_call = NoCall
    /\ pol_decision = NoDecision
    /\ waves = << >>
    /\ approval_requests = << >>
    /\ wave_response = NoResponse

LedgerNext ==
    \/ \E entry \in LogEntries : WriteLog(entry)
    \/ \E i \in 1..Len(log), col \in Columns :
         \E v \in ColumnValues(log, i, col) : TamperRow(i, col, v)
    \/ \E ids \in SUBSET {r.id : r \in RowSet(log)} : DeleteRows(ids)

SpecLedger == LedgerInit /\ [][LedgerNext]_vars

\* The ledger under two connections appending concurrently.
ConcNext ==
    \/ \E c \in Conns, run_id \in Runs : WlRead(c, run_id)
    \/ \E c \in Conns : WlInsert(c)
    \/ Tick

SpecConc == LedgerInit /\ [][ConcNext]_vars

\* The core API of logger.py, called in any order on one connection.
ApiEntries == {e \in LogEntries : e.timestamp_iso = 1}

ApiNext ==
    \/ \E entry \in ApiEntries : WriteLog(entry)
    \/ \E run_id \in Runs : UpsertRunStart(run_id, "running")
    \/ \E run_id \in Runs : UpdateRunApproval(run_id, <<"alice">>)
    \/ \E run_id \in Runs : UpdateRunStatus(run_id, "completed")
    \/ \E text \in OutputTexts : WriteLlmInvocation(ctx_run_id, text)
    \/ \E run_id \in Runs : VerifyRunIntegrity(run_id)
    \/ \E run_id \in Runs : GetRunLogs(run_id)

SpecApi == LedgerInit /\ [][ApiNext]_vars

\* One run_saw call on a graph that passes _build_graph and
\* _find_start_node, a chain or a cycle, with tools that take no measurable
\* time. A call that has begun goes on until it returns or raises: a step
\* that moves the walk is taken when it stays possible.
LiveSpecs ==
    {[saw_id |-> ctx_saw_id, policy_bundle |-> BoardPolicyBundle,
      graph |-> Graph(x[1], x[2])] :
        x \in {y \in {"chain", "cycle"} \X Chains(MaxNodes) :
                  y[1] = "cycle" => Len(y[2]) >= 1}}

LiveInit ==
    /\ log = << >>
    /\ inserted = << >>
    /\ tampered = FALSE
    /\ saw_spec \in LiveSpecs
    /\ input_resolver = "default"
    /\ ctx_state \in {EmptyDict, CallerState(PyTrue, -1)}
    /\ pc = "call"
    /\ raised = None
    /\ current_id = ""
    /\ summary = NoSummary
    /\ last_tool_result = NoResult
    /\ invoked = << >>
    /\ checked = << >>
    /\ results = << >>
    /\ conn_pc = [c \in Conns |-> "idle"]
    /\ conn_pend = [c \in Conns |-> NoPend]
    /\ now = 1
    /\ runs = << >>
    /\ llm_invocations = << >>
    /\ api_result = [call |-> "", value |-> << >>]
    /\ pol_call = NoCall
    /\ pol_decision = NoDecision
    /\ waves = << >>
    /\ approval_requests = << >>
    /\ wave_response = NoResponse

LiveNext ==
    \/ RunSawBegin
    \/ VisitStart
    \/ VisitEnd
    \/ VisitApprovalGate
    \/ \E outcome \in ToolOutcomes(CurrentTool) : VisitToolCall(outcome, 0)
    \/ VisitUnknown
    \/ RunSawReturn

\* The interpreter executing run_saw does not stop between two statements:
\* while the call has neither returned nor raised, its position moves.
Proceeds ==
    /\ pc \notin {"returned", "raised"}
    /\ pc' \in {"walk", "totals", "returned", "raised"}
    /\ current_id' \in {""} \cup DOMAIN node_map(saw_spec)

SpecLive == LiveInit /\ [][LiveNext]_vars /\ WF_<<pc, current_id>>(Proceeds)

\* policy_check called on any of the arguments of PolicyCalls.
PolicyInit ==
    /\ log = << >>
    /\ inserted = << >>
    /\ tampered = FALSE
    /\ saw_spec = NoSpec
    /\ input_resolver = "default"
    /\ ctx_state = EmptyDict
    /\ pc = "call"
    /\ raised = None
    /\ current_id = ""
    /\ summary = NoSummary
    /\ last_tool_result = NoResult
    /\ invoked = << >>
    /\ checked = << >>
    /\ results = << >>
    /\ conn_pc = [c \in Conns |-> "idle"]
    /\ conn_pend = [c \in Conns |-> NoPend]
    /\ now = 1
    /\ runs = << >>
    /\ llm_invocations = << >>
    /\ api_result = [call |-> "", value |-> << >>]
    /\ pol_call \in PolicyCalls
    /\ pol_decision = NoDecision
    /\ waves = << >>
    /\ approval_requests = << >>
    /\ wave_response = NoResponse

PolicyNext ==
    \/ PolicyCheck

SpecPolicy == PolicyInit /\ [][PolicyNext]_vars

\* approve_wave called any number of times on a database that holds some
\* waves.
WaveTables ==
    UNION {[ids -> {[status |-> st, updated_at |-> 1] : st \in WaveStatuses}] :
              ids \in SUBSET WaveIds}

WaveInit ==
    /\ log = << >>
    /\ inserted = << >>
    /\ tampered = FALSE
    /\ saw_spec = NoSpec
    /\ input_resolver = "default"
    /\ ctx_state = EmptyDict
    /\ pc = "call"
    /\ raised = None
    /\ current_id = ""
    /\ summary = NoSummary
    /\ last_tool_result = NoResult
    /\ invoked = << >>
    /\ checked = << >>
    /\ results = << >>
    /\ conn_pc = [c \in Conns |-> "idle"]
    /\ conn_pend = [c \in Conns |-> NoPend]
    /\ now = 1
    /\ runs = << >>
    /\ llm_invocations = << >>
    /\ api_result = [call |-> "", value |-> << >>]
    /\ pol_call = NoCall
    /\ pol_decision = NoDecision
    /\ waves \in WaveTables
    /\ approval_requests = << >>
    /\ wave_response = NoResponse

WaveNext ==
    \/ \E approval_request_id \in ApprovalIds : ApproveWave(approval_request_id, <<"alice">>)

SpecWave == WaveInit /\ [][WaveNext]_vars

\* One run_saw call on a fresh ledger.
Init ==
    /\ log = << >>
    /\ inserted = << >>
    /\ tampered = FALSE
    /\ saw_spec \in SawSpecs
    /\ input_resolver \in Resolvers(saw_spec)
    /\ ctx_state \in CallerStates(saw_spec)
    /\ pc = "call"
    /\ raised = None
    /\ current_id = ""
    /\ summary = NoSummary
    /\ last_tool_result = NoResult
    /\ invoked = << >>
    /\ checked = << >>
    /\ results = << >>
    /\ conn_pc = [c \in Conns |-> "idle"]
    /\ conn_pend = [c \in Conns |-> NoPend]
    /\ now = 1
    /\ runs = << >>
    /\ llm_invocations = << >>
    /\ api_result = [call |-> "", value |-> << >>]
    /\ pol_call = NoCall
    /\ pol_decision = NoDecision
    /\ waves = << >>
    /\ approval_requests = << >>
    /\ wave_response = NoResponse

Next ==
    \/ RunSawBegin
    \/ VisitStart
    \/ VisitEnd
    \/ VisitApprovalGate
    \/ \E measured_ms \in Latencies :
         \E outcome \in ToolOutcomes(CurrentTool) :
            VisitToolCall(outcome, measured_ms)
    \/ VisitUnknown
    \/ RunSawReturn

Spec == Init /\ [][Next]_vars

\* One run_saw call on a SAW that has the LLM step.
LlmInit ==
    /\ log = << >>
    /\ inserted = << >>
    /\ tampered = FALSE
    /\ saw_spec \in LlmSawSpecs
    /\ input_resolver \in Resolvers(saw_spec)
    /\ ctx_state \in CallerStates(saw_spec)
    /\ pc = "call"
    /\ raised = None
    /\ current_id = ""
    /\ summary = NoSummary
    /\ last_tool_result = NoResult
    /\ invoked = << >>
    /\ checked = << >>
    /\ results = << >>
    /\ conn_pc = [c \in Conns |-> "idle"]
    /\ conn_pend = [c \in Conns |-> NoPend]
    /\ now = 1
    /\ runs = << >>
    /\ llm_invocations = << >>
    /\ api_result = [call |-> "", value |-> << >>]
    /\ pol_call = NoCall
    /\ pol_decision = NoDecision
    /\ waves = << >>
    /\ approval_requests = << >>
    /\ wave_response = NoResponse

SpecLlm == LlmInit /\ [][Next]_vars

\* One run_saw call on a ledger whose appends may fail.
StorageNext ==
    \/ RunSawBegin
    \/ VisitStart
    \/ VisitEnd
    \/ VisitApprovalGate
    \/ \E measured_ms \in Latencies :
         \E outcome \in ToolOutcomes(CurrentTool) :
            VisitToolCall(outcome, measured_ms)
    \/ VisitUnknown
    \/ RunSawReturn
    \/ AppendFailsAtNode
    \/ \E measured_ms \in Latencies :
         \E outcome \in ToolOutcomes(CurrentTool) :
            AppendFailsAtTool(outcome, measured_ms)

SpecStorage == Init /\ [][StorageNext]_vars

\* ------------------------------------------------- properties: the engine

ToolOf(node_id) == node_map(saw_spec)[node_id].tool

\* The positions of the ledger rows a node wrote.
RowsOf(node_id) == {i \in 1..Len(log) : log[i].node_id = node_id}

\* The position of a node in the graph's node list (the walk order of a chain).
PosOf(node_id) ==
    CHOOSE i \in 1..Len(saw_spec.graph.nodes) : saw_spec.graph.nodes[i].id = node_id

NodeIds == {saw_spec.graph.nodes[i].id : i \in 1..Len(saw_spec.graph.nodes)}

IsLastNode(node_id) == PosOf(node_id) = Len(saw_spec.graph.nodes)

\* C1: a tool outside INFRA_TOOLS is invoked only when policy_check was asked
\* for that node and allowed it; when policy_check denied a node, its tool is
\* never invoked, the node has exactly one ledger row, with decision deny,
\* latency 0 and an error starting "Policy denied: ", the summary is denied
\* with that error as denial_reason, and the walk has stopped at that node.
C1_PolicyGatesTools ==
    /\ \A i \in 1..Len(invoked) :
          ToolOf(invoked[i]) \notin INFRA_TOOLS =>
             \E j \in 1..Len(checked) :
                checked[j].node_id = invoked[i] /\ checked[j].decision = "allow"
    /\ \A j \in 1..Len(checked) :
          checked[j].decision = "deny" =>
             LET n == checked[j].node_id
             IN  /\ ~InSeq(n, invoked)
                 /\ Cardinality(RowsOf(n)) = 1
                 /\ \A i \in RowsOf(n) :
                       /\ log[i].decision = "deny"
                       /\ log[i].latency_ms = 0
                       /\ Len(log[i].error) > 0
                       /\ log[i].error[1] = "Policy denied: "
                       /\ summary.denial_reason = log[i].error
                       /\ i = Len(log)
                 /\ summary.status = "denied"
                 /\ pc \in {"totals", "returned"}
                 /\ current_id = n

\* A run that invoked a tool, was then denied by policy at a later node that
\* is not the last of the graph, and has returned.
C1_Witness ==
    /\ pc = "returned"
    /\ Len(invoked) >= 1
    /\ \E j \in 1..Len(checked) :
          /\ checked[j].decision = "deny"
          /\ ~IsLastNode(checked[j].node_id)

GateIds == {id \in NodeIds : node_map(saw_spec)[id].type = "approval_gate"}

Granted == Get(ctx_state, Key("_approval_granted"), "None")

\* C2: an approval gate lets the walk go on only when
\* ctx.state["_approval_granted"] is the boolean True; with any other value,
\* or none, a visited gate has one row, a deny, the summary is denied with a
\* denial_reason containing "not provided", and no node behind the gate is
\* invoked or logged.
C2_GateNeedsTrue ==
    \A g \in GateIds :
       /\ (\E i \in RowsOf(g) : log[i].decision = "allow") => Granted = PyTrue
       /\ (RowsOf(g) # {} /\ Granted # PyTrue) =>
             /\ \A i \in RowsOf(g) : log[i].decision = "deny" /\ i = Len(log)
             /\ Cardinality(RowsOf(g)) = 1
             /\ summary.status = "denied"
             /\ Contains(summary.denial_reason, "not provided")
             /\ pc \in {"totals", "returned"}
             /\ \A m \in NodeIds :
                   PosOf(m) > PosOf(g) => RowsOf(m) = {} /\ ~InSeq(m, invoked)

\* A returned run whose gate saw the truthy non-boolean 1 and has a
\* tool_call node behind it.
C2_Witness ==
    /\ pc = "returned"
    /\ Granted = "1"
    /\ \E g \in GateIds :
          /\ RowsOf(g) # {}
          /\ \E m \in NodeIds :
                PosOf(m) > PosOf(g) /\ node_map(saw_spec)[m].type = "tool_call"

\* C3: a deny row is the last row run_saw appends.
C3_DenyIsLast ==
    \A i \in 1..Len(log) : log[i].decision = "deny" => i = Len(log)

\* A returned run stopped by a tool the registry does not know, after
\* earlier rows and before further nodes.
C3_Witness ==
    /\ pc = "returned"
    /\ Len(log) >= 2
    /\ log[Len(log)].decision = "deny"
    /\ Contains(log[Len(log)].error, "' not found in TOOL_REGISTRY")
    /\ ~IsLastNode(log[Len(log)].node_id)

\* ------------------------------------------------- properties: the ledger

\* The rows of a run as verify_run_integrity reads them.
Chain(l, run_id) == OrderRows(RunRows(l, run_id))

\* C4: after write_log appends alone, each run's rows in (timestamp_iso, id)
\* order are linked: the first has prev_hash GENESIS and every other one the
\* event_hash of the row before it.
C4_ChainLinked ==
    ~tampered =>
       \A run_id \in Runs :
          LET rows == Chain(log, run_id)
          IN  \A k \in 1..Len(rows) :
                 rows[k].prev_hash = IF k = 1 THEN GENESIS ELSE rows[k - 1].event_hash

\* The appends of each run came with non-decreasing timestamps.
AppendedInOrder ==
    \A i, j \in 1..Len(inserted) :
       (i < j /\ inserted[i].run_id = inserted[j].run_id)
          => inserted[i].timestamp_iso <= inserted[j].timestamp_iso

NoRowDeleted == Len(log) = Len(inserted)

\* No stored row of the run differs from what write_log inserted.
Unmodified(run_id) == \A r \in RunRows(log, run_id) : r = inserted[r.id]

\* C5: verify_run_integrity reports valid exactly when no stored row of the
\* run has been modified in any column since its insertion (stated for
\* ledgers appended in timestamp order from which nothing was deleted).
C5_ValidIffUnmodified ==
    (AppendedInOrder /\ NoRowDeleted) =>
       \A run_id \in Runs :
          verify_run_integrity(log, run_id).valid <=> Unmodified(run_id)

\* C6: on a chain that verifies, an UPDATE of latency_ms alone on the row at
\* position k makes verify_run_integrity report valid false,
\* first_mismatch_index k and an expected_hash that differs from found_hash.
C6_LatencyTamperFound ==
    [][\A i \in 1..Len(log) : \A v \in Latencies :
          (/\ v # log[i].latency_ms
           /\ log' = UpdateColumn(log, i, "latency_ms", v)
           /\ verify_run_integrity(log, log[i].run_id).valid)
          => LET rows == Chain(log, log[i].run_id)
                 k == CHOOSE j \in 1..Len(rows) : rows[j].id = log[i].id
                 res == verify_run_integrity(log', log[i].run_id)
             IN  /\ ~res.valid
                 /\ res.first_mismatch_index = k - 1
                 /\ res.expected_hash # res.found_hash]_vars

\* A row behind the first of its run had its latency changed, and the
\* verification stops at it.
C6_Witness ==
    /\ tampered
    /\ NoRowDeleted
    /\ \E i \in 1..Len(log) :
          /\ log[i].latency_ms # inserted[log[i].id].latency_ms
          /\ verify_run_integrity(inserted, log[i].run_id).valid
          /\ verify_run_integrity(log, log[i].run_id).first_mismatch_index >= 1

\* C7: after write_log appends alone, whatever their timestamps,
\* verify_run_integrity reports every run valid.
C7_ValidAfterAppend ==
    ~tampered => \A run_id \in Runs : verify_run_integrity(log, run_id).valid

\* C8: deleting rows of a run whose chain verifies makes verify_run_integrity
\* report the run invalid.
C8_DeletionFound ==
    [][\A run_id \in Runs :
          (/\ verify_run_integrity(log, run_id).valid
           /\ RunRows(log', run_id) # RunRows(log, run_id)
           /\ \E ids \in SUBSET {r.id : r \in RowSet(log)} : log' = DropRows(log, ids))
          => ~verify_run_integrity(log', run_id).valid]_vars

\* C9: two connections appending to one run leave no two rows of the run
\* with the same prev_hash, and the run verifies.
C9_ConcurrentAppendsChain ==
    \A run_id \in Runs :
       /\ \A r, q \in RunRows(log, run_id) : r.prev_hash = q.prev_hash => r = q
       /\ verify_run_integrity(log, run_id).valid

\* The rows of the other runs, changed by one UPDATE that leaves the row
\* outside run_id, or with some of them deleted.
OtherRunsChanged(l, run_id) ==
    UNION {{UpdateColumn(l, i, col, v) : v \in ColumnValues(l, i, col)} :
              <<i, col>> \in {x \in (1..Len(l)) \X (Columns \ {"run_id"}) :
                                l[x[1]].run_id # run_id}}
    \cup {DropRows(l, ids) : ids \in SUBSET {r.id : r \in RowSet(l) \ RunRows(l, run_id)}}

\* C10: a row's prev_hash is GENESIS or the event_hash of an earlier row of
\* its own run and of no row of another run, and what verify_run_integrity
\* reports for a run does not depend on the rows of other runs or on changes
\* made to them.
C10_RunsIsolated ==
    /\ \A r \in RowSet(log) :
          /\ \/ r.prev_hash = GENESIS
             \/ \E q \in RunRows(log, r.run_id) :
                   q.id < r.id /\ q.event_hash = r.prev_hash
          /\ \A q \in RowSet(log) : q.event_hash = r.prev_hash => q.run_id = r.run_id
    /\ \A run_id \in Runs :
          \A l \in OtherRunsChanged(log, run_id) :
             verify_run_integrity(l, run_id) = verify_run_integrity(log, run_id)

\* Both runs have rows, the rows of one run enclosing a row of the other.
C10_Witness ==
    \E i, j, k \in 1..Len(log) :
       /\ i < j /\ j < k
       /\ log[i].run_id = log[k].run_id
       /\ log[j].run_id # log[i].run_id
       /\ log[k].prev_hash = log[i].event_hash

\* -------------------------------------------- properties: the core API

\* C11: no call of the core API removes or changes a stored execution_log
\* row: across every step each row that existed is still there, at its
\* place, with every column as it was.
C11_AppendOnly ==
    [][/\ Len(log') >= Len(log)
       /\ \A i \in 1..Len(log) : log'[i] = log[i]]_vars

\* Every kind of call has been made around two appends to one run: the run
\* has a completed, approved runs row and an llm_invocations row, and the
\* last call read the two rows back.
C11_Witness ==
    /\ \E run_id \in DOMAIN runs :
          /\ runs[run_id].status = "completed"
          /\ runs[run_id].approved_by # None
          /\ Cardinality(RunRows(log, run_id)) >= 2
          /\ \E i \in 1..Len(llm_invocations) : llm_invocations[i].run_id = run_id
    /\ api_result.call = "get_run_logs"
    /\ Len(api_result.value) >= 2

\* ---------------------------------------- properties: the run's outcome

\* A human-readable reason: a string that is not empty.
IsReason(msg) == msg # None /\ msg # EmptyStr

\* C12: when run_saw has returned, the summary's status is completed,
\* denied or error, and unless it is completed the denial_reason is a
\* non-empty string.
C12_TerminalStatus ==
    pc = "returned" =>
       /\ summary.status \in {"completed", "denied", "error"}
       /\ summary.status # "completed" => IsReason(summary.denial_reason)

KnownTypes == {"start", "end", "tool_call", "approval_gate"}

\* C14: once the walk has met a node of a type it does not know, the run is
\* over with status error and a denial_reason, and no exception has left
\* run_saw.
C14_UnknownTypeIsError ==
    (/\ pc \notin {"call", "walk"}
     /\ current_id \in DOMAIN node_map(saw_spec)
     /\ node_map(saw_spec)[current_id].type \notin KnownTypes)
    => /\ pc \in {"totals", "returned"}
       /\ summary.status = "error"
       /\ IsReason(summary.denial_reason)

\* --------------------------------------- properties: graph validation

\* The spec's graph read off its lists: the edges leaving a node, and the
\* nodes of type start.
OutEdges(id) ==
    {i \in 1..Len(saw_spec.graph.edges) : saw_spec.graph.edges[i].from = id}

Branching == \E id \in NodeIds : Cardinality(OutEdges(id)) > 1

StartCount ==
    Cardinality({i \in 1..Len(saw_spec.graph.nodes) :
                    saw_spec.graph.nodes[i].type = "start"})

InvalidGraph == Branching \/ StartCount # 1

EdgesLeadToNodes ==
    \A i \in 1..Len(saw_spec.graph.edges) : saw_spec.graph.edges[i].to \in NodeIds

AllTypesKnown == \A id \in NodeIds : node_map(saw_spec)[id].type \in KnownTypes

\* The node ids of the ledger entries, in append order.
LedgerIds == [i \in 1..Len(log) |-> log[i].node_id]

\* The node ids of the graph's node list.
ChainIds == [i \in 1..Len(saw_spec.graph.nodes) |-> saw_spec.graph.nodes[i].id]

\* The graph is a linear chain: the first node is the only start node and
\* the edges lead from each node of the list to the next.
IsLinearChain ==
    /\ ~InvalidGraph
    /\ saw_spec.graph.nodes[1].type = "start"
    /\ Len(saw_spec.graph.edges) = Len(saw_spec.graph.nodes) - 1
    /\ \A i \in 1..Len(saw_spec.graph.edges) :
          /\ saw_spec.graph.edges[i].from = ChainIds[i]
          /\ saw_spec.graph.edges[i].to = ChainIds[i + 1]

\* Nothing stood in the way of the run: the chain ends in its only end node,
\* every node type is known, no entry is a deny and every called tool
\* succeeded.
GoldenPath ==
    /\ AllTypesKnown
    /\ \A id \in NodeIds : node_map(saw_spec)[id].type = "end" <=> IsLastNode(id)
    /\ \A i \in 1..Len(log) : log[i].decision # "deny"
    /\ \A i \in 1..Len(results) : results[i].success

\* C18: when a run on a linear chain has ended, the node ids of its ledger
\* entries in append order are the chain from the start node up to the node
\* at which it ended, each once; on the golden path that is the whole
\* chain, every decision is allow and the status is completed.
C18_LedgerFollowsChain ==
    (IsLinearChain /\ pc \in {"returned", "raised"}) =>
        /\ LedgerIds = SubSeq(ChainIds, 1, PosOf(current_id))
        /\ GoldenPath =>
              /\ pc = "returned"
              /\ LedgerIds = ChainIds
              /\ \A i \in 1..Len(log) : log[i].decision = "allow"
              /\ summary.status = "completed"

\* ------------------------------------------- properties: policy_check

\* What the call's arguments say, read off the policy and the inputs (a
\* missing template_id is no allowed id; a missing create_new_deck or
\* allow_create_new_decks counts as false).
OnDenylist == pol_call.tool_name \in pol_call.policy.tool_denylist
OnAllowlist == pol_call.tool_name \in pol_call.policy.tool_allowlist
EgressClosed ==
    \/ pol_call.tool_name = "tool_external_http"
          /\ ~pol_call.policy.egress.allow_external_http
    \/ pol_call.tool_name = "tool_email_send"
          /\ ~pol_call.policy.egress.allow_email_send
    \/ pol_call.tool_name = "tool_slack_dm"
          /\ ~pol_call.policy.egress.allow_slack_dm
HasRestrictions == pol_call.tool_name \in DOMAIN pol_call.policy.write_restrictions
TemplateAllowed ==
    /\ "template_id" \in DOMAIN pol_call.tool_inputs
    /\ \E i \in 1..Len(pol_call.policy.write_restrictions[pol_call.tool_name]
                           .allowed_template_ids) :
          pol_call.policy.write_restrictions[pol_call.tool_name]
              .allowed_template_ids[i] = pol_call.tool_inputs.template_id
NewDeckRefused ==
    /\ "create_new_deck" \in DOMAIN pol_call.tool_inputs
    /\ pol_call.tool_inputs.create_new_deck
    /\ LET r == pol_call.policy.write_restrictions[pol_call.tool_name]
       IN  "allow_create_new_decks" \in DOMAIN r => ~r.allow_create_new_decks

\* C22: policy_check returns allow exactly when the tool is off the
\* denylist, on the allowlist, not an egress tool whose egress boolean is
\* false, and either the call is no write, or the tool has no
\* write_restrictions entry, or its template_id is allowed and no new deck is
\* asked for against allow_create_new_decks; otherwise it returns deny.
C22_AllowIff ==
    pol_decision # NoDecision =>
        /\ pol_decision.decision \in {"allow", "deny"}
        /\ pol_decision.decision = "allow" <=>
              /\ ~OnDenylist
              /\ OnAllowlist
              /\ ~EgressClosed
              /\ \/ ~pol_call.is_write
                 \/ ~HasRestrictions
                 \/ TemplateAllowed /\ ~NewDeckRefused

\* A write with an allowed template that asks for a new deck where the
\* policy lets one be made: allowed.
C22_Witness ==
    /\ pol_decision # NoDecision
    /\ pol_decision.decision = "allow"
    /\ pol_call.is_write
    /\ HasRestrictions
    /\ "create_new_deck" \in DOMAIN pol_call.tool_inputs
    /\ pol_call.tool_inputs.create_new_deck

\* ------------------------------------------- properties: write restrictions

\* The policy bundle's entries for a tool.
BundleRestrictions == Get(saw_spec.policy_bundle, "write_restrictions", EmptyDict)

\* The template id resolved for a node, "" when the inputs hold none.
TemplateOf(n) == Get(ctx_state[InputsKey(n)], "template_id", "")

\* The visited write nodes whose tool has a write_restrictions entry and
\* whose resolved template_id is not among its allowed_template_ids.
WrongTemplateNodes ==
    {n \in NodeIds :
        /\ node_map(saw_spec)[n].type = "tool_call"
        /\ node_map(saw_spec)[n].write_action
        /\ ToolOf(n) \in DOMAIN BundleRestrictions
        /\ InputsKey(n) \in DOMAIN ctx_state
        /\ ~InSeq(TemplateOf(n), BundleRestrictions[ToolOf(n)].allowed_template_ids)}

\* The tool of n comes before policy_check and steps 1 to 3 let it pass.
ReachesWriteStep(n) ==
    /\ ToolOf(n) \notin INFRA_TOOLS
    /\ ToolOf(n) \notin saw_spec.policy_bundle.tools.denylist
    /\ ToolOf(n) \in saw_spec.policy_bundle.tools.allowlist
    /\ ToolOf(n) = "tool_external_http" =>
          saw_spec.policy_bundle.egress.allow_external_http
    /\ ToolOf(n) = "tool_email_send" => saw_spec.policy_bundle.egress.allow_email_send
    /\ ToolOf(n) = "tool_slack_dm" => saw_spec.policy_bundle.egress.allow_slack_dm

\* The node was not invoked, the run ended there as denied, and its one
\* ledger row is a deny naming the template id, with no row behind it.
DeniedForTemplate(n) ==
    /\ ~InSeq(n, invoked)
    /\ pc \in {"totals", "returned"}
    /\ summary.status = "denied"
    /\ Cardinality(RowsOf(n)) = 1
    /\ \A i \in RowsOf(n) :
          /\ log[i].decision = "deny"
          /\ Contains(log[i].error, TemplateOf(n))
          /\ i = Len(log)

\* C23: a write node whose tool is checked by policy_check, passes the
\* denylist, allowlist and egress steps, has a write_restrictions entry and
\* resolves a template_id outside allowed_template_ids is never invoked;
\* the run ends denied with one deny row for the node naming the template
\* id, and no row for a later node.
C23_WrongTemplateDenied ==
    \A n \in WrongTemplateNodes : ReachesWriteStep(n) => DeniedForTemplate(n)

\* Such a node, with a node behind it, in a run that has returned.
C23_Witness ==
    /\ pc = "returned"
    /\ \E n \in WrongTemplateNodes :
          /\ ReachesWriteStep(n)
          /\ ~IsLastNode(n)
          /\ TemplateOf(n) = "ROGUE_TEMPLATE"

\* C23 as the specification words it: for every write node with a
\* write_restrictions entry and a template_id outside the allowed ones.
C23_AnyWrongTemplateDenied ==
    \A n \in WrongTemplateNodes : DeniedForTemplate(n)

\* ------------------------------------------- properties: infra tools

\* The visited tool_call nodes whose tool is the log writer.
LogWriterNodes ==
    {n \in NodeIds :
        /\ node_map(saw_spec)[n].type = "tool_call"
        /\ ToolOf(n) = "tool_logger_write"
        /\ InputsKey(n) \in DOMAIN ctx_state}

\* C25: for a node whose tool is tool_logger_write policy_check is never
\* asked; the tool is invoked and the node's one ledger row is an allow,
\* whatever the policy's lists hold.
C25_InfraBypassesPolicy ==
    \A n \in LogWriterNodes :
        /\ \A j \in 1..Len(checked) : checked[j].node_id # n
        /\ InSeq(n, invoked)
        /\ Cardinality(RowsOf(n)) = 1
        /\ \A i \in RowsOf(n) : log[i].decision = "allow"

\* The log writer ran under a policy that has it on the denylist and not on
\* the allowlist.
C25_Witness ==
    /\ pc = "returned"
    /\ LogWriterNodes # {}
    /\ "tool_logger_write" \in saw_spec.policy_bundle.tools.denylist
    /\ "tool_logger_write" \notin saw_spec.policy_bundle.tools.allowlist

\* ------------------------------------------- properties: tool outputs

\* C21: when run_saw returns, every tool node whose tool function was
\* invoked has its node id as a key of ctx.state, holding the data payload
\* the tool returned.
C21_StateHoldsToolData ==
    pc = "returned" =>
        \A i \in 1..Len(results) :
            /\ Key(results[i].node_id) \in DOMAIN ctx_state
            /\ ctx_state[Key(results[i].node_id)] = results[i].data

\* ------------------------------------------- properties: timing

\* The ledger entries written at approval gates, and the others.
IsGateEntry(i) ==
    /\ log[i].node_id \in NodeIds
    /\ node_map(saw_spec)[log[i].node_id].type = "approval_gate"

GateEntries == {i \in 1..Len(log) : IsGateEntry(i)}
OtherEntries == {i \in 1..Len(log) : ~IsGateEntry(i)}

\* The sum of latency_ms over the entries at the positions in S.
RECURSIVE SumLatency(_)
SumLatency(S) ==
    IF S = {} THEN 0
    ELSE LET i == CHOOSE x \in S : TRUE
         IN  log[i].latency_ms + SumLatency(S \ {i})

\* C19: when run_saw returns, whatever the status, system_time_ms is the sum
\* of latency_ms over the ledger entries that are not approval-gate
\* entries, the entry of a tool that returned success = false included.
C19_SystemTimeIsSum ==
    pc = "returned" => summary.system_time_ms = SumLatency(OtherEntries)

\* C20: when run_saw returns, human_wait_time_ms is the sum of latency_ms
\* over the approval-gate entries of the ledger, rounded to two decimals,
\* whether the gates granted or denied and however many there are; it is 0
\* when ctx.state has no _approval_wait_ms.
C20_HumanWaitIsRoundedSum ==
    pc = "returned" =>
        /\ summary.human_wait_time_ms = Round2(SumLatency(GateEntries))
        /\ Key("_approval_wait_ms") \notin DOMAIN ctx_state =>
              summary.human_wait_time_ms = 0

\* Two gates were passed with a wait set, and the run returned.
C20_Witness ==
    /\ pc = "returned"
    /\ Cardinality(GateEntries) = 2
    /\ SumLatency(GateEntries) > 0

\* C20 as the specification words it: the sum itself, not rounded.
C20_HumanWaitIsSum ==
    pc = "returned" => summary.human_wait_time_ms = SumLatency(GateEntries)

\* ------------------------------------------- properties: storage errors

StorageFailed == raised # None /\ raised[1] = "sqlite3.OperationalError"

\* C15: once an append has failed with a storage error the run is aborted
\* with status error (run_saw is on its way to return that summary, and no
\* exception has left it), and every tool the run invoked has a ledger entry
\* for its node.
C15_StorageErrorAborts ==
    StorageFailed =>
        /\ pc \in {"totals", "returned"}
        /\ summary.status = "error"
        /\ \A i \in 1..Len(invoked) :
              \E j \in 1..Len(log) : log[j].node_id = invoked[i]

\* ------------------------------------------- properties: termination

\* C13: on a spec that passes graph validation (one start node, no node with
\* two outgoing edges), whose nodes all have a known type, run_saw
\* eventually returns its RunSummary.
C13_Terminates ==
    <>(\/ InvalidGraph \/ ~EdgesLeadToNodes \/ ~AllTypesKnown
       \/ pc = "returned")

\* ------------------------------------------- properties: the run record

\* canonical_json of the policy bundle: one text per bundle.
PolicySnapshot(bundle) == << <<"policy_bundle", bundle>> >>

RunRowWritten == ctx_run_id \in DOMAIN runs

\* An allow entry of an approval gate is in the ledger.
GatePassed == \E i \in GateEntries : log[i].decision = "allow"

\* C26: once the ledger holds an entry of the run, the runs table holds the
\* row of ctx.run_id with the snapshot of the policy bundle and its SHA-256,
\* and with status running for as long as run_saw has not returned.
C26_RunRowBeforeLedger ==
    (\E i \in 1..Len(log) : log[i].run_id = ctx_run_id) =>
        /\ RunRowWritten
        /\ runs[ctx_run_id].policy_snapshot = PolicySnapshot(saw_spec.policy_bundle)
        /\ runs[ctx_run_id].policy_hash
              = sha256_hex(PolicySnapshot(saw_spec.policy_bundle))
        /\ pc # "returned" => runs[ctx_run_id].status = "running"

\* C27: when run_saw has returned its summary, the runs row of ctx.run_id
\* has the summary's status, and after a passed approval gate the approver
\* and the note that ctx.state holds.
C27_RunRecordClosed ==
    (pc = "returned" /\ raised = None) =>
        /\ RunRowWritten
        /\ runs[ctx_run_id].status = summary.status
        /\ GatePassed =>
              /\ runs[ctx_run_id].approved_by
                    = Get(ctx_state, Key("_approved_by"), None)
              /\ runs[ctx_run_id].approval_note
                    = Get(ctx_state, Key("_approval_note"), None)

\* ------------------------------------------- properties: LLM invocations

\* The tool results that carry an llm_meta block.
LlmResults ==
    {j \in 1..Len(results) :
        results[j].success /\ "llm_meta" \in DOMAIN results[j].data}

\* C29: once a tool node has returned successfully with an llm_meta block
\* and the walk has gone on, llm_invocations holds a row of that run and
\* node.
C29_LlmInvocationCommitted ==
    \A j \in LlmResults :
        \E i \in 1..Len(llm_invocations) :
            /\ llm_invocations[i].run_id = ctx_run_id
            /\ llm_invocations[i].node_id = results[j].node_id

\* ------------------------------------------- properties: the run header

\* C28: a call of upsert_run_start leaves one runs row for its run_id, with
\* the saw_id, started_at, status and policy fields of that call, whatever
\* the row held before; the rows of other runs stay; the same call made
\* again changes nothing; and execution_log is as it was.
C28_UpsertIdempotent ==
    [][\A run_id \in Runs :
          UpsertRunStart(run_id, "running") =>
              /\ run_id \in DOMAIN runs'
              /\ runs'[run_id].run_id = run_id
              /\ runs'[run_id].saw_id = ctx_saw_id
              /\ runs'[run_id].started_at = now
              /\ runs'[run_id].status = "running"
              /\ runs'[run_id].policy_hash = sha256_hex(Lit("policy"))
              /\ runs'[run_id].policy_version = <<"0.1">>
              /\ runs'[run_id].policy_snapshot = Lit("policy")
              /\ DOMAIN runs' = DOMAIN runs \cup {run_id}
              /\ \A r \in DOMAIN runs \ {run_id} : runs'[r] = runs[r]
              /\ upsert_run_start(runs', run_id, ctx_saw_id, now, "running",
                                  sha256_hex(Lit("policy")), <<"0.1">>,
                                  Lit("policy")) = runs'
              /\ log' = log
              /\ inserted' = inserted]_vars

\* upsert_run_start has just been called, the ledger has rows, and every
\* runs row is approved and running: the call was made on a row that was
\* there, after an approval.
C28_Witness ==
    /\ api_result.call = "upsert_run_start"
    /\ log # << >>
    /\ DOMAIN runs = Runs
    /\ \A r \in DOMAIN runs :
          runs[r].approved_by # None /\ runs[r].status = "running"

\* ------------------------------------------- properties: reading a run

\* C30: get_run_logs(run_id) returns every row of the run once, no other
\* row, and the rows in ascending (timestamp_iso, id) order.
C30_RunLogsInOrder ==
    [][\A run_id \in Runs :
          (api_result'.call = "get_run_logs" /\ GetRunLogs(run_id)) =>
              LET rows == api_result'.value
              IN  /\ {rows[i] : i \in 1..Len(rows)} = RunRows(log, run_id)
                  /\ Len(rows) = Cardinality(RunRows(log, run_id))
                  /\ \A i, j \in 1..Len(rows) :
                        i < j => RowLess(rows[i], rows[j])]_vars

\* ------------------------------------------- properties: input resolution

\* C31: resolving the inputs of a node changes nothing in ctx.state but the
\* entry '_inputs_<node_id>', which holds what the resolver returned for the
\* state as it was: a step of run_saw changes ctx.state only at a tool_call
\* node, every other key keeps its value, no key goes away, and besides the
\* inputs entry only the node's own key (the tool's data) can be set.
C31_ResolverLeavesState ==
    [][ctx_state' # ctx_state =>
          /\ pc = "walk"
          /\ current_id \in DOMAIN node_map(saw_spec)
          /\ node_map(saw_spec)[current_id].type = "tool_call"
          /\ DOMAIN ctx_state \subseteq DOMAIN ctx_state'
          /\ DOMAIN ctx_state' \subseteq
                DOMAIN ctx_state \cup {<<"_inputs_", current_id>>, <<current_id>>}
          /\ \A k \in DOMAIN ctx_state \ {<<"_inputs_", current_id>>, <<current_id>>} :
                ctx_state'[k] = ctx_state[k]
          /\ <<"_inputs_", current_id>> \in DOMAIN ctx_state'
          /\ ctx_state'[<<"_inputs_", current_id>>] = Resolve(current_id, ctx_state)
          /\ <<current_id>> \in DOMAIN ctx_state' \ DOMAIN ctx_state =>
                last_tool_result'.success]_vars

\* A run has returned whose caller handed over the approval signal, and
\* ctx.state holds that signal next to the inputs and the data of a tool
\* node with a wired payload and of a node the resolver does not know.
C31_Witness ==
    /\ pc = "returned"
    /\ Key("_approval_granted") \in DOMAIN ctx_state
    /\ <<"_inputs_", "n_salesforce_pull">> \in DOMAIN ctx_state
    /\ ctx_state[<<"_inputs_", "n_salesforce_pull">>] # EmptyDict
    /\ <<"_inputs_", "n_log">> \in DOMAIN ctx_state
    /\ ctx_state[<<"_inputs_", "n_log">>] = EmptyDict
    /\ Key("n_salesforce_pull") \in DOMAIN ctx_state

\* ------------------------------------------- properties: wave approval

\* The waves whose id begins with the prefix, character for character.
HasPrefix(prefix, wave_id) ==
    /\ Len(prefix) <= Len(wave_id)
    /\ \A i \in 1..Len(prefix) : prefix[i] = wave_id[i]

\* C32: approve_wave called with an identifier that is no stored
\* approval_request_id takes it for a wave id prefix: when more than one
\* wave id begins with the prefix it answers AMBIGUOUS_WAVE_PREFIX, when
\* none does it answers WAVE_NOT_FOUND, and in both cases approval_requests
\* and waves stay as they were.
C32_PrefixOnlyWhenUnambiguous ==
    [][\A id \in ApprovalIds :
          (ApproveWave(id, <<"alice">>) /\ id \notin DOMAIN approval_requests) =>
              LET found == {w \in DOMAIN waves : HasPrefix(StripApr(id), w)}
              IN  /\ Cardinality(found) > 1 =>
                        /\ wave_response'.code = "AMBIGUOUS_WAVE_PREFIX"
                        /\ UNCHANGED <<waves, approval_requests>>
                  /\ found = {} =>
                        /\ wave_response'.code = "WAVE_NOT_FOUND"
                        /\ UNCHANGED <<waves, approval_requests>>]_vars

\* ------------------------------------------- properties: a failing tool

\* The tool results with success = false.
FailedResults == {j \in 1..Len(results) : ~results[j].success}

\* C33: once a tool function has returned success = false, the ledger has
\* one entry for its node, an allow with the tool's error, and it is the
\* last entry; the summary is denied with the tool's error as denial_reason;
\* ctx.state has no entry under the node id; the walk has stopped at the
\* node; and run_saw is returning, no exception raised.
C33_FailedToolEndsRun ==
    \A j \in FailedResults :
        LET n == results[j].node_id
        IN  /\ Cardinality(RowsOf(n)) = 1
            /\ \A i \in RowsOf(n) :
                  /\ log[i].decision = "allow"
                  /\ log[i].error = results[j].error
                  /\ i = Len(log)
            /\ summary.status = "denied"
            /\ summary.denial_reason = results[j].error
            /\ <<n>> \notin DOMAIN ctx_state
            /\ current_id = n
            /\ j = Len(results)
            /\ pc \in {"totals", "returned"}
            /\ raised = None

\* A run has returned in which a tool after a successful one failed with an
\* error text.
C33_Witness ==
    /\ pc = "returned"
    /\ Len(results) >= 2
    /\ results[1].success
    /\ ~results[Len(results)].success
    /\ results[Len(results)].error # None
    /\ Len(log) < Len(saw_spec.graph.nodes)

\* ------------------------------------------- properties: the tool registry

\* The tool_call nodes the walk has come to whose tool has no registry
\* entry.
UnregisteredNodes ==
    {n \in NodeIds :
        /\ node_map(saw_spec)[n].type = "tool_call"
        /\ ToolOf(n) \notin TOOL_REGISTRY
        /\ <<"_inputs_", n>> \in DOMAIN ctx_state}

\* C34: a tool_call node whose tool has no registry entry gets one ledger
\* entry, a deny with latency 0, the last of the run; the run is denied with
\* the entry's error as denial_reason; no tool function is called for it;
\* the policy is asked first, so that the error is the policy's when the
\* policy denies the tool and names the tool as not found only when the
\* policy allows it.
C34_UnregisteredToolDenied ==
    \A n \in UnregisteredNodes :
        /\ ~InSeq(n, invoked)
        /\ Cardinality(RowsOf(n)) = 1
        /\ \E j \in 1..Len(checked) : checked[j].node_id = n
        /\ \A i \in RowsOf(n) :
              /\ i = Len(log)
              /\ log[i].decision = "deny"
              /\ log[i].latency_ms = 0
              /\ summary.denial_reason = log[i].error
              /\ \A j \in 1..Len(checked) :
                    checked[j].node_id = n =>
                        IF checked[j].decision = "deny"
                        THEN log[i].error[1] = "Policy denied: "
                        ELSE log[i].error
                               = <<"Tool '", ToolOf(n), "' not found in TOOL_REGISTRY">>
        /\ summary.status = "denied"
        /\ pc \in {"totals", "returned"}
        /\ raised = None

\* A run has returned that came, after a tool that ran, to a node whose
\* tool the policy allows and the registry does not hold.
C34_Witness ==
    /\ pc = "returned"
    /\ invoked # << >>
    /\ \E n \in UnregisteredNodes :
          \E j \in 1..Len(checked) :
              checked[j].node_id = n /\ checked[j].decision = "allow"

\* ------------------------------------------- properties: the first mismatch

\* The stored event_hash of the row before position i, GENESIS for the
\* first row.
StoredBefore(rows, i) == IF i = 1 THEN GENESIS ELSE rows[i - 1].event_hash

\* The event_hash recomputed for the row at position i from the stored hash
\* before it and the row's own columns.
Recomputed(rows, i) ==
    sha256_hex(StoredBefore(rows, i) \o canonical_json(
        EventPayload(rows[i].run_id, rows[i].node_id, rows[i].tool_name,
                     rows[i].decision, rows[i].latency_ms, rows[i].error,
                     rows[i].timestamp_iso)))

Mismatch(rows, i) ==
    \/ rows[i].prev_hash # StoredBefore(rows, i)
    \/ rows[i].event_hash # Recomputed(rows, i)

\* C35: when verify_run_integrity answers valid = false for a run, its
\* first_mismatch_index k is a position of the run's rows in
\* (timestamp_iso, id) order, counted from zero; row k is the first whose
\* stored prev_hash is not the stored event_hash of the row before it
\* (GENESIS for k = 0) or whose stored event_hash is not the recomputed
\* one; and expected_hash and found_hash are the recomputed and the stored
\* event_hash of row k.
C35_FirstMismatch ==
    \A run_id \in Runs :
        LET answer == verify_run_integrity(log, run_id)
            rows == OrderRows(RunRows(log, run_id))
            k == answer.first_mismatch_index
        IN  ~answer.valid =>
                /\ k \in 0..(Len(rows) - 1)
                /\ Mismatch(rows, k + 1)
                /\ \A i \in 1..k : ~Mismatch(rows, i)
                /\ answer.expected_hash = Recomputed(rows, k + 1)
                /\ answer.found_hash = rows[k + 1].event_hash

\* A run of three rows fails verification at a row that is not the first.
C35_Witness ==
    \E run_id \in Runs :
        /\ Cardinality(RunRows(log, run_id)) = 3
        /\ ~verify_run_integrity(log, run_id).valid
        /\ verify_run_integrity(log, run_id).first_mismatch_index >= 1

\* ------------------------------------------- properties: deny reasons

\* The reason texts, as the caller reads them.
DenylistReason == <<"Tool '", pol_call.tool_name, "' is on the denylist.">>
AllowlistReason ==
    <<"Tool '", pol_call.tool_name, "' is not on the allowlist for policy '",
      pol_call.policy.policy_id, "'.">>
EgressReason ==
    CASE pol_call.tool_name = "tool_external_http" ->
            <<"External HTTP egress is disabled by policy.">>
      [] pol_call.tool_name = "tool_email_send" ->
            <<"Email send is disabled by policy.">>
      [] OTHER -> <<"Slack DM is disabled by policy.">>
TemplateReason ==
    <<"Template ID '",
      IF "template_id" \in DOMAIN pol_call.tool_inputs
      THEN pol_call.tool_inputs.template_id ELSE "",
      "' is not in the allowed list: ">>
    \o pol_call.policy.write_restrictions[pol_call.tool_name].allowed_template_ids
    \o <<".">>
NewDeckReason == <<"Creating new decks is not allowed by policy.">>

\* C36: a deny carries the reasons of the first failing step alone, in the
\* order denylist, allowlist, egress, write restrictions: one reason for
\* each of the first three, and for a write the template reason, the
\* new-deck reason, or both with the template reason first; an allow
\* carries the one reason all_checks_passed.
C36_ReasonsOfFirstFailingStep ==
    pol_decision # NoDecision =>
        /\ pol_decision.reasons # << >>
        /\ pol_decision.decision = "allow" =>
              pol_decision.reasons = << <<"all_checks_passed">> >>
        /\ pol_decision.decision = "deny" =>
              pol_decision.reasons =
                  IF OnDenylist THEN <<DenylistReason>>
                  ELSE IF ~OnAllowlist THEN <<AllowlistReason>>
                  ELSE IF EgressClosed THEN <<EgressReason>>
                  ELSE (IF TemplateAllowed THEN << >> ELSE <<TemplateReason>>)
                       \o (IF NewDeckRefused THEN <<NewDeckReason>> ELSE << >>)

\* A write has been denied for both of its rules.
C36_Witness ==
    /\ pol_decision.decision = "deny"
    /\ ~OnDenylist /\ OnAllowlist /\ ~EgressClosed
    /\ Len(pol_decision.reasons) = 2

\* ------------------------------------------- properties: a dead end

\* The walk has stopped at a node it went through, which is no end node and
\* has no outgoing edge: a start node, a gate that let the walk pass, or a
\* tool that returned success.
StoppedAtDeadEnd ==
    /\ pc \in {"totals", "returned"}
    /\ current_id \in NodeIds
    /\ \A i \in 1..Len(saw_spec.graph.edges) :
          saw_spec.graph.edges[i].from # current_id
    /\ LET type == node_map(saw_spec)[current_id].type
       IN  \/ type = "start"
           \/ /\ type = "approval_gate"
              /\ \E i \in RowsOf(current_id) : log[i].decision = "allow"
           \/ /\ type = "tool_call"
              /\ \E j \in 1..Len(results) :
                    results[j].node_id = current_id /\ results[j].success

\* C37: a walk that has gone through a node other than an end node and
\* finds no edge out of it ends with status error and the denial_reason
\* "No outgoing edge from node '<id>'"; the node's ledger entry is there, the
\* last of the run; and a tool node has been invoked and its data stored in
\* ctx.state.
C37_DeadEndIsError ==
    StoppedAtDeadEnd =>
        /\ summary.status = "error"
        /\ summary.denial_reason = <<"No outgoing edge from node '", current_id, "'">>
        /\ raised = None
        /\ Cardinality(RowsOf(current_id)) = 1
        /\ log[Len(log)].node_id = current_id
        /\ node_map(saw_spec)[current_id].type = "tool_call" =>
              /\ InSeq(current_id, invoked)
              /\ <<current_id>> \in DOMAIN ctx_state
              /\ \E j \in 1..Len(results) :
                    /\ results[j].node_id = current_id
                    /\ ctx_state[<<current_id>>] = results[j].data

\* A run has returned that stopped at a tool node without an outgoing edge,
\* after the tool returned success.
C37_Witness ==
    /\ pc = "returned"
    /\ StoppedAtDeadEnd
    /\ node_map(saw_spec)[current_id].type = "tool_call"
    /\ Len(log) >= 3

\* ------------------------------------------- properties: approved writes

\* C38: a tool_call node with write_action = true has been invoked only if
\* the ledger of the run holds an allow entry of an approval gate.
C38_WriteNeedsApproval ==
    \A k \in 1..Len(invoked) :
        node_map(saw_spec)[invoked[k]].write_action =>
            \E i \in 1..Len(log) :
                /\ log[i].run_id = ctx_run_id
                /\ IsGateEntry(i)
                /\ log[i].decision = "allow"

\* ------------------------------------------- properties: one payload

\* C39: the payload a tool function is called with is the payload
\* policy_check evaluated for the node, and it is what the resolver returned
\* and ctx.state holds under '_inputs_<node_id>'.
C39_PolicySeesToolInputs ==
    \A j \in 1..Len(results) :
        LET n == results[j].node_id
        IN  /\ <<"_inputs_", n>> \in DOMAIN ctx_state
            /\ results[j].inputs = ctx_state[<<"_inputs_", n>>]
            /\ \A k \in 1..Len(checked) :
                  checked[k].node_id = n => checked[k].inputs = results[j].inputs
            /\ ToolOf(n) # "tool_logger_write" =>
                  \E k \in 1..Len(checked) :
                      checked[k].node_id = n /\ checked[k].decision = "allow"

\* The write tool has been called with a payload that carries a template
\* id, after the policy allowed it.
C39_Witness ==
    \E j \in 1..Len(results) :
        /\ results[j].node_id = "n_update_slides"
        /\ "template_id" \in DOMAIN results[j].inputs
        /\ \E k \in 1..Len(checked) :
              checked[k].node_id = "n_update_slides" /\ checked[k].decision = "allow"

\* ------------------------------------------- properties: the cycle-time breakdown

\* Every latency of the run's ledger entries is a value that rounding to two
\* decimals leaves alone, as an integer number of milliseconds is.
WholeLatencies ==
    \A r \in RunRows(log, ctx_run_id) : Round2(r.latency_ms) = r.latency_ms

\* C40: when run_saw has returned from a run on a linear chain, whatever the
\* status and whatever the id of the approval gate, get_cycle_time_breakdown
\* computed from the ledger gives the system_time_ms and the
\* human_wait_time_ms of the returned RunSummary (latencies being whole).
C40_BreakdownMatchesSummary ==
    (pc = "returned" /\ IsLinearChain /\ WholeLatencies) =>
        \A ct \in get_cycle_time_breakdown(log, ctx_run_id) :
            /\ ct.system_time_ms = summary.system_time_ms
            /\ ct.human_wait_time_ms = summary.human_wait_time_ms

====
